---- MODULE Spec2Model ----
(***************************************************************************)
(* A model of llmrouter's streaming pipeline: ChatCompletionStream of the  *)
(* Google and Anthropic adapters (the call, the goroutine it launches and  *)
(* its deferred clean-up), the unbuffered channel between the goroutine    *)
(* and stream.Write, and stream.Write as called by handleChatCompletions.  *)
(***************************************************************************)
EXTENDS Integers, Sequences, FiniteSets, TLC

\* The number of upstream lines one stream delivers before it can only end.
MaxEvents == 3

\* The number of content events in a stream that follows the vendor's protocol.
MaxDeltas == 2

\* The number of content events in each stream of two in flight together.
MaxPairDeltas == 1

----------------------------------------------------------------------------
\* Unified types (provider.go)

\* A nil *Usage.
NoUsage == [present |-> FALSE, PromptTokens |-> 0, CompletionTokens |-> 0, TotalTokens |-> 0]

\* &Usage{...}
MkUsage(p, c, t) == [present |-> TRUE, PromptTokens |-> p, CompletionTokens |-> c, TotalTokens |-> t]

\* StreamChunk; Error is "nil" or the kind of the wrapped error.
StreamChunk(id, model, delta, done, usage, err) ==
    [ID |-> id, Model |-> model, Delta |-> delta, Done |-> done, Usage |-> usage, Error |-> err]

\* The zero StreamChunk.
ZeroChunk == StreamChunk("", "", "", FALSE, NoUsage, "nil")

\* req.Model of the request being served.
ReqModel == "m"

\* The number of messages in a request.
MaxMessages == 3

\* A nil pointer and a value not yet computed.
None == [present |-> FALSE]

\* Message; Content is the text as the sequence of its characters.
Message(role, content) == [Role |-> role, Content |-> content]

Roles == {"system", "user", "assistant", "tool"}

Contents == {<<"p">>, <<"q">>}

Messages == {Message(r, c) : r \in Roles, c \in Contents}

\* ChatRequest
ChatRequest(model, msgs, stream, maxTokens) ==
    [Model |-> model, Messages |-> msgs, Stream |-> stream, MaxTokens |-> maxTokens]

\* The requests with "stream": false that the handler can decode.
CompleteRequests ==
    {ChatRequest(ReqModel, msgs, FALSE, mt) :
        msgs \in UNION {[1..k -> Messages] : k \in 0..MaxMessages}, mt \in {-1, 0, 5}}

\* The request with "stream": true whose stream the goroutine reads.
StreamRequest == ChatRequest(ReqModel, <<Message("user", <<"p">>)>>, TRUE, 0)

\* ChatResponse
ChatResponse(id, model, content, p, c, t) ==
    [present |-> TRUE, ID |-> id, Model |-> model, Content |-> content,
     Usage |-> [PromptTokens |-> p, CompletionTokens |-> c, TotalTokens |-> t]]

----------------------------------------------------------------------------
\* Upstream lines, as the scanner hands them to the loop body.

\* A line of the Gemini stream: line is "other" (no "data: " prefix), "bad"
\* (data line whose JSON does not decode) or "json" (a geminiResponse).
GeminiLine(line, ncand, nparts, text, finish, usage) ==
    [line |-> line, ncand |-> ncand, nparts |-> nparts, text |-> text,
     finishReason |-> finish, usageMetadata |-> usage]

GeminiLines ==
    { GeminiLine("other", 0, 0, "", "", NoUsage),
      GeminiLine("bad", 0, 0, "", "", NoUsage),
      GeminiLine("json", 0, 0, "", "", NoUsage),
      GeminiLine("json", 1, 1, "a", "", NoUsage),
      GeminiLine("json", 1, 1, "b", "", MkUsage(1, 0, 1)),
      GeminiLine("json", 1, 1, "a", "STOP", MkUsage(1, 1, 3)),
      GeminiLine("json", 1, 0, "", "STOP", MkUsage(1, 1, 3)),
      GeminiLine("json", 1, 0, "", "MAX_TOKENS", NoUsage) }

\* A line of the Anthropic stream: an anthropicStreamEvent with its optional
\* Message, Delta and Usage members.
AnthropicLine(line, type, hasMsg, id, model, inTok, hasDelta, text, stop, hasUsage, outTok) ==
    [line |-> line, type |-> type, hasMessage |-> hasMsg, id |-> id, model |-> model,
     inputTokens |-> inTok, hasDelta |-> hasDelta, text |-> text, stopReason |-> stop,
     hasUsage |-> hasUsage, outputTokens |-> outTok]

AnthropicLines ==
    { AnthropicLine("other", "", FALSE, "", "", 0, FALSE, "", "", FALSE, 0),
      AnthropicLine("bad", "", FALSE, "", "", 0, FALSE, "", "", FALSE, 0),
      AnthropicLine("json", "message_start", TRUE, "r1", "m", 3, FALSE, "", "", FALSE, 0),
      AnthropicLine("json", "content_block_delta", FALSE, "", "", 0, TRUE, "a", "", FALSE, 0),
      AnthropicLine("json", "content_block_delta", FALSE, "", "", 0, TRUE, "b", "", FALSE, 0),
      AnthropicLine("json", "content_block_delta", FALSE, "", "", 0, FALSE, "", "", FALSE, 0),
      AnthropicLine("json", "message_delta", FALSE, "", "", 0, TRUE, "", "end_turn", TRUE, 2),
      AnthropicLine("json", "message_stop", FALSE, "", "", 0, FALSE, "", "", FALSE, 0),
      AnthropicLine("json", "ping", FALSE, "", "", 0, FALSE, "", "", FALSE, 0) }

\* The body of Gemini's answer to generateContent: line is "bad" when the JSON
\* does not decode; candidates holds, for each candidate, the texts of the
\* parts of its content.
GeminiBody(line, candidates, usage) ==
    [present |-> TRUE, line |-> line, candidates |-> candidates, usageMetadata |-> usage]

GeminiBodies ==
    { GeminiBody("bad", <<>>, NoUsage),
      GeminiBody("json", <<>>, NoUsage),
      GeminiBody("json", << <<>> >>, MkUsage(1, 1, 3)),
      GeminiBody("json", << <<"x", "y">> >>, MkUsage(1, 1, 3)),
      GeminiBody("json", << <<"x">> >>, NoUsage),
      GeminiBody("json", << <<>>, <<"z">> >>, NoUsage) }

\* anthropicContentBlock
Block(type, text) == [Type |-> type, Text |-> text]

\* The body of Anthropic's answer to /messages.
AnthropicBody(line, id, model, content, inTok, outTok) ==
    [present |-> TRUE, line |-> line, id |-> id, model |-> model, content |-> content,
     inputTokens |-> inTok, outputTokens |-> outTok]

AnthropicBodies ==
    { AnthropicBody("bad", "", "", <<>>, 0, 0),
      AnthropicBody("json", "r1", "m", <<>>, 3, 0),
      AnthropicBody("json", "r1", "m", <<Block("tool_use", "")>>, 3, 2),
      AnthropicBody("json", "r1", "m", <<Block("text", "x")>>, 3, 2),
      AnthropicBody("json", "r1", "m", <<Block("text", "")>>, 3, 2),
      AnthropicBody("json", "r1", "m",
                    <<Block("tool_use", ""), Block("text", "x"), Block("text", "y")>>, 3, 2) }

\* The HTTP statuses the upstream answers with.
http_StatusOK == 200
Statuses == {200, 429, 500}

----------------------------------------------------------------------------
VARIABLES
    adapter,      \* "google" or "anthropic": the Provider the handler resolved
    feed,         \* what the upstream sends: "any" lines, the vendor's "protocol",
                  \* or, with two requests in flight, the lines of a "pair"
    peer,         \* the state of the other request in flight, if there is one
    me,           \* which of the requests in flight the other variables belong to
    req,          \* the ChatRequest the handler decoded
    vendorReq,    \* what toGeminiRequest or toAnthropicRequest made of it
    vendorResp,   \* the body of the vendor's answer to ChatCompletion
    resp,         \* the ChatResponse ChatCompletion returned
    flusherOK,    \* whether the ResponseWriter implements http.Flusher
    call,         \* ChatCompletionStream: "pending", then what it returned
    status,       \* httpResp.StatusCode, 0 when there is no response
    goroutines,   \* the number of goroutines ChatCompletionStream launched
    wpc,          \* the goroutine's position
    lines,        \* the lines scanner.Scan() has returned so far
    scanErr,      \* scanner.Err(): "nil", "net" or "ctx" (read aborted by ctx)
    chunk,        \* the StreamChunk the goroutine is sending
    acc,          \* respID, model, inputTokens, outputTokens of the goroutine
    exitPath,     \* how the goroutine left its body
    produced,     \* the chunks the goroutine built, in order
    sent,         \* the chunks handed over on ch, in order
    sentOnDone,   \* how many of them were handed over with ctx.Done() closed
    ctxDone,      \* ctx.Done() is closed
    ctxSeen,      \* the goroutine took a <-ctx.Done() case
    bodyCloses,   \* the calls of httpResp.Body.Close(), by whom
    chClosed,     \* close(ch) has run
    cpc,          \* the handler's position (in stream.Write once streaming)
    cur,          \* the chunk of the current iteration of Write's range loop
    frames,       \* what was written to w, frame by frame
    flushed,      \* how many of the frames have been flushed
    headers,      \* the response headers set so far
    ret,          \* what stream.Write returned
    yamlFile,     \* the keys and values of the YAML file at the path given to Load
    dotenvFile,   \* the assignments of the .env file, if there is one
    environ,      \* the environment of the process
    cfg           \* what config.Load returned

\* What config.Load reads and returns.
configVars == <<yamlFile, dotenvFile, environ, cfg>>

\* What a request and its goroutines hold.
requestVars == <<adapter, feed, peer, me, req, vendorReq, vendorResp, resp, flusherOK, call, status, goroutines, wpc, lines, scanErr, chunk, acc,
                 exitPath, produced, sent, sentOnDone, ctxDone, ctxSeen, bodyCloses, chClosed,
                 cpc, cur, frames, flushed, headers, ret>>

vars == <<configVars, requestVars>>

workerVars == <<wpc, lines, scanErr, chunk, acc, exitPath, produced, ctxSeen>>
writeVars == <<cpc, cur, frames, flushed, headers, ret>>

ZeroAcc == [respID |-> "", model |-> "", inputTokens |-> 0, outputTokens |-> 0]

----------------------------------------------------------------------------
\* config.Load

\* Texts are sequences of tokens: words, and the characters "_", ".", "${"
\* and "}" the code looks at.  A key path is a sequence of segments, each a
\* text: server.read_timeout is << <<"server">>, <<"read", "_", "timeout">> >>.

\* A value of koanf's map: an integer, or a string.
IntValue(n) == [kind |-> "int", n |-> n, s |-> <<>>]
StrValue(s) == [kind |-> "str", n |-> 0, s |-> s]

Leaf(path, value) == [path |-> path, value |-> value]

EnvVar(name, value) == [name |-> name, value |-> value]

\* The keys of Config, ServerConfig and ProviderConfig, by their koanf tags.
Key_port == << <<"server">>, <<"port">> >>
Key_read_timeout == << <<"server">>, <<"read", "_", "timeout">> >>
Key_write_timeout == << <<"server">>, <<"write", "_", "timeout">> >>
Key_api_key(name) == << <<"providers">>, name, <<"api", "_", "key">> >>
Key_base_url(name) == << <<"providers">>, name, <<"base", "_", "url">> >>

\* The YAML files Load is given: none at the path, an empty one, the one of
\* TestLoadEnvOverride, and the one of TestLoad.
NoFile == [exists |-> FALSE, leaves |-> {}]

YamlFiles ==
    { NoFile,
      [exists |-> TRUE, leaves |-> {}],
      [exists |-> TRUE,
       leaves |-> { Leaf(Key_port, IntValue(8080)),
                    Leaf(Key_read_timeout, StrValue(<<"30s">>)),
                    Leaf(Key_write_timeout, StrValue(<<"120s">>)) }],
      [exists |-> TRUE,
       leaves |-> { Leaf(Key_port, IntValue(9090)),
                    Leaf(Key_read_timeout, StrValue(<<"10s">>)),
                    Leaf(Key_write_timeout, StrValue(<<"60s">>)),
                    Leaf(Key_api_key(<<"google">>), StrValue(<<"${", "TEST", "_", "API", "_", "KEY", "}">>)),
                    Leaf(Key_base_url(<<"google">>), StrValue(<<"https://example.com/v1">>)) }] }

\* The file the server is started with.
ServerYaml ==
    [exists |-> TRUE,
     leaves |-> { Leaf(Key_port, IntValue(8080)),
                  Leaf(Key_read_timeout, StrValue(<<"30s">>)),
                  Leaf(Key_write_timeout, StrValue(<<"120s">>)) }]

\* The variables the environment may hold.
EnvVars ==
    { EnvVar(<<"LLMROUTER", "_", "SERVER", "_", "PORT">>, <<"3000">>),
      EnvVar(<<"LLMROUTER", "_", "SERVER", "_", "READ", "_", "TIMEOUT">>, <<"5s">>),
      EnvVar(<<"LLMROUTER", "_", "PROVIDERS", "_", "GOOGLE", "_", "API", "_", "KEY">>, <<"key-2">>),
      EnvVar(<<"LLMROUTER", "_", "SERVER", "_", "PORT", "_", "MAX">>, <<"1">>),
      EnvVar(<<"SERVER", "_", "PORT">>, <<"9000">>),
      EnvVar(<<"TEST", "_", "API", "_", "KEY">>, <<"my-secret-key">>) }

\* The assignments a .env file may hold.
DotenvVars ==
    { EnvVar(<<"LLMROUTER", "_", "SERVER", "_", "PORT">>, <<"9000">>),
      EnvVar(<<"TEST", "_", "API", "_", "KEY">>, <<"dotenv-key">>) }

strings_HasPrefix(s, prefix) == Len(s) >= Len(prefix) /\ SubSeq(s, 1, Len(prefix)) = prefix

strings_HasSuffix(s, suffix) ==
    Len(s) >= Len(suffix) /\ SubSeq(s, Len(s) - Len(suffix) + 1, Len(s)) = suffix

strings_TrimPrefix(s, prefix) ==
    IF strings_HasPrefix(s, prefix) THEN SubSeq(s, Len(prefix) + 1, Len(s)) ELSE s

ToLowerWord(w) ==
    CASE w = "SERVER" -> "server" [] w = "PORT" -> "port" [] w = "READ" -> "read"
      [] w = "WRITE" -> "write" [] w = "TIMEOUT" -> "timeout" [] w = "PROVIDERS" -> "providers"
      [] w = "GOOGLE" -> "google" [] w = "API" -> "api" [] w = "KEY" -> "key"
      [] w = "BASE" -> "base" [] w = "URL" -> "url" [] w = "MAX" -> "max"
      [] w = "TEST" -> "test" [] w = "LLMROUTER" -> "llmrouter"
      [] OTHER -> w

strings_ToLower(s) == [i \in DOMAIN s |-> ToLowerWord(s[i])]

strings_ReplaceAll(s, old, new) == [i \in DOMAIN s |-> IF s[i] = old THEN new ELSE s[i]]

\* strings.Split(s, sep), from the i-th token of s on, seg being the segment
\* read so far.
RECURSIVE SplitFrom(_, _, _, _)
SplitFrom(s, sep, i, seg) ==
    IF i > Len(s) THEN <<seg>>
    ELSE IF s[i] = sep THEN <<seg>> \o SplitFrom(s, sep, i + 1, <<>>)
    ELSE SplitFrom(s, sep, i + 1, Append(seg, s[i]))

strings_Split(s, sep) == SplitFrom(s, sep, 1, <<>>)

\* The callback given to env.Provider: the key of an environment variable.
EnvKey(s) ==
    strings_ReplaceAll(strings_ToLower(strings_TrimPrefix(s, <<"LLMROUTER", "_">>)), "_", ".")

\* godotenv.Load(): the assignments of .env are put into the environment,
\* those of variables that are set already are not.
godotenv_Load(dotenv, env) ==
    env \cup {d \in dotenv : \A e \in env : e.name # d.name}

\* os.Getenv
os_Getenv(env, name) ==
    IF \E e \in env : e.name = name THEN (CHOOSE e \in env : e.name = name).value ELSE <<>>

\* env.Provider("LLMROUTER_", ".", cb): the variables with the prefix, each
\* under the key the callback gives, split at the delimiter.
env_Provider(env) ==
    { Leaf(strings_Split(EnvKey(e.name), "."), StrValue(e.value)) :
        e \in {x \in env : strings_HasPrefix(x.name, <<"LLMROUTER", "_">>)} }

IsPathPrefix(p, q) == Len(p) <= Len(q) /\ SubSeq(q, 1, Len(p)) = p

\* k.Load on a koanf that holds dst: a value of src replaces what dst has at
\* its key, below it or above it.
koanf_Merge(dst, src) ==
    {l \in dst : \A m \in src : ~IsPathPrefix(m.path, l.path) /\ ~IsPathPrefix(l.path, m.path)}
        \cup src

strconv_Atoi(s) ==
    CASE s = <<"3000">> -> 3000 [] s = <<"9000">> -> 9000 [] s = <<"1">> -> 1 [] OTHER -> -1

\* time.ParseDuration, in seconds.
time_ParseDuration(s) ==
    CASE s = <<"5s">> -> 5 [] s = <<"10s">> -> 10 [] s = <<"30s">> -> 30
      [] s = <<"60s">> -> 60 [] s = <<"120s">> -> 120 [] OTHER -> -1

HasKey(k, path) == \E l \in k : l.path = path

Get(k, path) == (CHOOSE l \in k : l.path = path).value

\* mapstructure decodes with weakly typed input: a string is parsed into an
\* int field, and into a time.Duration field by the decode hook.
ToInt(v) == IF v.kind = "int" THEN v.n ELSE strconv_Atoi(v.s)

ToDuration(v) == IF v.kind = "int" THEN v.n ELSE time_ParseDuration(v.s)

StringOf(v) == v.s

ProviderNames(k) == {l.path[2] : l \in {x \in k : Len(x.path) = 3 /\ x.path[1] = <<"providers">>}}

\* The Config that k.Unmarshal("", &cfg) fills: a field whose key is not in
\* k keeps its zero value.
Unmarshaled(k) ==
    [err |-> "nil",
     Server |-> [Port |-> IF HasKey(k, Key_port) THEN ToInt(Get(k, Key_port)) ELSE 0,
                 ReadTimeout |-> IF HasKey(k, Key_read_timeout)
                                 THEN ToDuration(Get(k, Key_read_timeout)) ELSE 0,
                 WriteTimeout |-> IF HasKey(k, Key_write_timeout)
                                  THEN ToDuration(Get(k, Key_write_timeout)) ELSE 0],
     Providers |-> [name \in ProviderNames(k) |->
                       [APIKey |-> IF HasKey(k, Key_api_key(name))
                                   THEN StringOf(Get(k, Key_api_key(name))) ELSE <<>>,
                        BaseURL |-> IF HasKey(k, Key_base_url(name))
                                    THEN StringOf(Get(k, Key_base_url(name))) ELSE <<>>]]]

\* Unmarshal fails when k has a map where a field takes a number, or a
\* string that does not parse as one.
UnmarshalFails(k) ==
    \/ \E l \in k, f \in {Key_port, Key_read_timeout, Key_write_timeout} :
          IsPathPrefix(f, l.path) /\ l.path # f
    \/ HasKey(k, Key_port) /\ ToInt(Get(k, Key_port)) < 0
    \/ HasKey(k, Key_read_timeout) /\ ToDuration(Get(k, Key_read_timeout)) < 0
    \/ HasKey(k, Key_write_timeout) /\ ToDuration(Get(k, Key_write_timeout)) < 0

\* The API key of a provider after the expansion of a ${VAR} placeholder.
ExpandAPIKey(p, env) ==
    IF strings_HasPrefix(p.APIKey, <<"${">>) /\ strings_HasSuffix(p.APIKey, <<"}">>)
    THEN [p EXCEPT !.APIKey = os_Getenv(env, SubSeq(p.APIKey, 2, Len(p.APIKey) - 1))]
    ELSE p

\* What Load returns for a YAML file and an environment, .env read into it.
LoadResult(yaml, env) ==
    IF ~yaml.exists THEN [err |-> "loading config file"]
    ELSE LET k == koanf_Merge(yaml.leaves, env_Provider(env))
         IN  IF UnmarshalFails(k) THEN [err |-> "unmarshaling config"]
             ELSE LET c == Unmarshaled(k)
                  IN  [c EXCEPT !.Providers =
                          [name \in DOMAIN c.Providers |-> ExpandAPIKey(c.Providers[name], env)]]

NotLoaded == [err |-> "none"]

\* main calls config.Load(path) before it builds the server: .env is read
\* into the environment, the YAML file is loaded, the environment is layered
\* on top, the result is unmarshaled and the API keys are expanded.
Load ==
    /\ cfg = NotLoaded
    /\ environ' = godotenv_Load(dotenvFile, environ)
    /\ cfg' = LoadResult(yamlFile, environ')
    /\ UNCHANGED <<yamlFile, dotenvFile, requestVars>>

\* The server runs with the configuration Load returned at its start.
Configured ==
    /\ yamlFile = ServerYaml
    /\ dotenvFile = {}
    /\ environ = {}
    /\ cfg = LoadResult(ServerYaml, {})

\* No other request is in flight.
NoRequest == [call |-> "absent"]

\* A request as handleChatCompletions finds it when it has resolved the
\* provider.
NewRequest ==
    /\ adapter \in {"google", "anthropic"}
    /\ flusherOK \in BOOLEAN
    /\ call = "pending"
    /\ status = 0
    /\ goroutines = 0
    /\ wpc = "none"
    /\ lines = <<>>
    /\ scanErr = "nil"
    /\ chunk = ZeroChunk
    /\ acc = ZeroAcc
    /\ exitPath = "none"
    /\ produced = <<>>
    /\ sent = <<>>
    /\ sentOnDone = 0
    /\ ctxDone = FALSE
    /\ ctxSeen = FALSE
    /\ bodyCloses = <<>>
    /\ chClosed = FALSE
    /\ cpc = "handler"
    /\ cur = ZeroChunk
    /\ frames = <<>>
    /\ flushed = 0
    /\ headers = {}
    /\ ret = "none"

\* A request with "stream": true: ChatCompletion has no part in serving it.
Streaming ==
    /\ req = StreamRequest
    /\ vendorReq = None
    /\ vendorResp = None
    /\ resp = None

Start(f) ==
    /\ Configured
    /\ feed = f
    /\ peer = NoRequest
    /\ me = 1
    /\ Streaming
    /\ NewRequest

\* A request whose upstream may send any lines.
Init == Start("any")

----------------------------------------------------------------------------
\* ChatCompletionStream up to the launch of the goroutine

\* A status check that lets every status below 500 through.
StatusIsErrorOnly5xx(st) == st >= 500

\* if httpResp.StatusCode != http.StatusOK
StatusIsError(st) == st # http_StatusOK

\* The handler calls p.ChatCompletionStream(r.Context(), &req): the request is
\* built and sent; a failure to build or send it, or a status other than 200,
\* is returned as an error (the body of an error response is closed by the
\* deferred Close of that branch); otherwise ch is made and the goroutine is
\* launched.  The handler answers an error with a 502 and returns.
ChatCompletionStream ==
    /\ cpc = "handler"
    /\ req.Stream
    /\ call = "pending"
    /\ headers' = headers \cup {<<"X-LLMRouter-Provider", adapter>>, <<"X-LLMRouter-Model", ReqModel>>}
    /\ \E outcome \in {"errRequest", "errDo", "response"} :
         IF outcome # "response"
         THEN /\ call' = outcome
              /\ cpc' = "respond502"
              /\ UNCHANGED <<status, goroutines, wpc, bodyCloses>>
         ELSE \E st \in Statuses :
                /\ status' = st
                /\ IF StatusIsError(st)
                   THEN /\ call' = "errStatus"
                        /\ bodyCloses' = Append(bodyCloses, "ChatCompletionStream")
                        /\ cpc' = "respond502"
                        /\ UNCHANGED <<goroutines, wpc>>
                   ELSE /\ call' = "chan"
                        /\ goroutines' = goroutines + 1
                        /\ wpc' = "scan"
                        /\ cpc' = "write"
                        /\ UNCHANGED bodyCloses
    /\ UNCHANGED <<configVars, adapter, feed, peer, me, req, vendorReq, vendorResp, resp, flusherOK, lines, scanErr, chunk, acc, exitPath, produced, sent,
                   sentOnDone, ctxDone, ctxSeen, chClosed, cur, frames, flushed, ret>>

\* The handler's answer to an error of ChatCompletionStream.
Respond502 ==
    /\ cpc = "respond502"
    /\ headers' = {h \in headers : h[1] # "Content-Type"} \cup {<<"Content-Type", "application/json">>}
    /\ frames' = Append(frames, [kind |-> "error502"])
    /\ cpc' = "returned"
    /\ UNCHANGED <<configVars, adapter, feed, peer, me, req, vendorReq, vendorResp, resp, flusherOK, call, status, goroutines, workerVars, sent, sentOnDone,
                   ctxDone, bodyCloses, chClosed, cur, flushed, ret>>

----------------------------------------------------------------------------
\* The goroutine

\* A chunk that carries the event's usageMetadata whether or not it is final.
GeminiChunkUsageAlways(l) ==
    StreamChunk("", ReqModel,
                IF l.nparts > 0 THEN l.text ELSE "",
                l.finishReason # "",
                IF l.usageMetadata.present
                    THEN MkUsage(l.usageMetadata.PromptTokens, l.usageMetadata.CompletionTokens,
                                 l.usageMetadata.TotalTokens)
                    ELSE NoUsage,
                "nil")

\* A final chunk that loses the fragment of its event.
GeminiChunkDropsFinalText(l) ==
    StreamChunk("", ReqModel,
                IF l.nparts > 0 /\ l.finishReason = "" THEN l.text ELSE "",
                l.finishReason # "",
                IF l.finishReason # "" /\ l.usageMetadata.present
                    THEN MkUsage(l.usageMetadata.PromptTokens, l.usageMetadata.CompletionTokens,
                                 l.usageMetadata.TotalTokens)
                    ELSE NoUsage,
                "nil")

\* The chunk built from a decoded Gemini event that has a candidate.
GeminiChunk(l) ==
    StreamChunk("", ReqModel,
                IF l.nparts > 0 THEN l.text ELSE "",
                l.finishReason # "",
                IF l.finishReason # "" /\ l.usageMetadata.present
                    THEN MkUsage(l.usageMetadata.PromptTokens, l.usageMetadata.CompletionTokens,
                                 l.usageMetadata.TotalTokens)
                    ELSE NoUsage,
                "nil")

\* The chunk sent when an event does not decode.
DecodeErrChunk == StreamChunk("", "", "", TRUE, NoUsage, "decode")

\* The chunk sent when the scanner stopped on an error.
ReadErrChunk == StreamChunk("", "", "", TRUE, NoUsage, "read")

\* A loop body that skips a candidate without parts.
GeminiNextSkipsNoParts(l) ==
    IF l.line = "other" THEN "scan"
    ELSE IF l.line = "bad" THEN "sendDecodeErr"
    ELSE IF l.ncand = 0 \/ l.nparts = 0 THEN "scan"
    ELSE "select"

\* Where one iteration of the Gemini loop body takes the goroutine.
GeminiNext(l) ==
    IF l.line = "other" THEN "scan"
    ELSE IF l.line = "bad" THEN "sendDecodeErr"
    ELSE IF l.ncand = 0 THEN "scan"
    ELSE "select"

\* A message_start that does not record the model.
AnthropicAccNoModel(a, l) ==
    IF l.line # "json" THEN a
    ELSE IF l.type = "message_start" /\ l.hasMessage
        THEN [a EXCEPT !.respID = l.id, !.inputTokens = l.inputTokens]
    ELSE IF l.type = "message_delta" /\ l.hasUsage
        THEN [a EXCEPT !.outputTokens = l.outputTokens]
    ELSE a

\* The accumulated respID, model, inputTokens, outputTokens after an
\* Anthropic event.
AnthropicAcc(a, l) ==
    IF l.line # "json" THEN a
    ELSE IF l.type = "message_start" /\ l.hasMessage
        THEN [a EXCEPT !.respID = l.id, !.model = l.model, !.inputTokens = l.inputTokens]
    ELSE IF l.type = "message_delta" /\ l.hasUsage
        THEN [a EXCEPT !.outputTokens = l.outputTokens]
    ELSE a

\* A message_stop chunk whose total is the output count alone.
AnthropicChunkOutputAsTotal(a, l) ==
    IF l.type = "content_block_delta"
    THEN StreamChunk(a.respID, a.model, l.text, FALSE, NoUsage, "nil")
    ELSE StreamChunk(a.respID, a.model, "", TRUE,
                     MkUsage(a.inputTokens, a.outputTokens, a.outputTokens),
                     "nil")

\* The chunk an Anthropic content_block_delta or message_stop event builds.
AnthropicChunk(a, l) ==
    IF l.type = "content_block_delta"
    THEN StreamChunk(a.respID, a.model, l.text, FALSE, NoUsage, "nil")
    ELSE StreamChunk(a.respID, a.model, "", TRUE,
                     MkUsage(a.inputTokens, a.outputTokens, a.inputTokens + a.outputTokens),
                     "nil")

\* A switch whose default case reports an unknown event type as an error.
AnthropicNextStrict(l) ==
    IF l.line = "other" THEN "scan"
    ELSE IF l.line = "bad" THEN "sendDecodeErr"
    ELSE IF l.type = "content_block_delta" THEN (IF l.hasDelta THEN "select" ELSE "scan")
    ELSE IF l.type = "message_stop" THEN "select"
    ELSE IF l.type \in {"message_start", "message_delta"} THEN "scan"
    ELSE "sendDecodeErr"

\* Where one iteration of the Anthropic loop body takes the goroutine.
AnthropicNext(l) ==
    IF l.line = "other" THEN "scan"
    ELSE IF l.line = "bad" THEN "sendDecodeErr"
    ELSE IF l.type = "content_block_delta" THEN (IF l.hasDelta THEN "select" ELSE "scan")
    ELSE IF l.type = "message_stop" THEN "select"
    ELSE "scan"

Lines == IF adapter = "google" THEN GeminiLines ELSE AnthropicLines

LineNext(l) == IF adapter = "google" THEN GeminiNext(l) ELSE AnthropicNext(l)

\* Chunks that lose the text fragment of their event.
LineChunkEmptyDelta(a, l) ==
    IF l.line = "bad" THEN DecodeErrChunk
    ELSE [(IF adapter = "google" THEN GeminiChunk(l) ELSE AnthropicChunk(a, l)) EXCEPT !.Delta = ""]

\* The chunk the loop body builds from a line.
LineChunk(a, l) ==
    IF l.line = "bad" THEN DecodeErrChunk
    ELSE IF adapter = "google" THEN GeminiChunk(l) ELSE AnthropicChunk(a, l)

\* The lines with a text fragment and no finish marker or stop.
IsContentLine(l) ==
    /\ l.line = "json"
    /\ IF adapter = "google"
       THEN l.ncand > 0 /\ l.nparts > 0 /\ l.finishReason = ""
       ELSE l.type = "content_block_delta" /\ l.hasDelta

ContentCount(ls) == Cardinality({i \in DOMAIN ls : IsContentLine(ls[i])})

\* The lines a vendor that keeps to its streaming protocol can send next.
\* Gemini: content events, then one event with a finishReason (with or
\* without a last fragment).  Anthropic: message_start, content_block_delta
\* events, message_delta, message_stop.
ProtocolLines(ls) ==
    LET more == IF ContentCount(ls) < MaxDeltas THEN {l \in Lines : IsContentLine(l)} ELSE {}
    IN  IF adapter = "google"
        THEN IF \E i \in DOMAIN ls : ls[i].finishReason # ""
             THEN {}
             ELSE more \cup {l \in Lines : l.line = "json" /\ l.finishReason # ""}
        ELSE IF ls = <<>> THEN {l \in Lines : l.type = "message_start"}
             ELSE IF ls[Len(ls)].type \in {"message_start", "content_block_delta"}
                  THEN more \cup {l \in Lines : l.type = "message_delta"}
             ELSE IF ls[Len(ls)].type = "message_delta"
                  THEN {l \in Lines : l.type = "message_stop"}
             ELSE {}

\* The text in the events of the upstream response to request i: with two
\* requests in flight each has its own response, with its own text.
Tag(i) == IF i = 1 THEN "a" ELSE "b"

\* The lines the scanner can return next.
NextLines ==
    IF feed = "any"
    THEN (IF Len(lines) < MaxEvents THEN Lines ELSE {})
    ELSE IF feed = "pair"
    THEN (IF Len(lines) < MaxPairDeltas
          THEN {l \in Lines : l.line = "json" /\ l.text = Tag(me)}
          ELSE {})
    ELSE ProtocolLines(lines)

\* scanner.Scan() returns a line and the loop body runs up to its send, its
\* continue or the next Scan.  The lines already buffered by the scanner are
\* returned also after the context was cancelled.
ScanLine ==
    /\ wpc = "scan"
    /\ \E l \in NextLines :
         /\ lines' = Append(lines, l)
         /\ wpc' = LineNext(l)
         /\ acc' = IF adapter = "anthropic" THEN AnthropicAcc(acc, l) ELSE acc
         /\ IF LineNext(l) = "scan"
            THEN UNCHANGED <<chunk, produced>>
            ELSE /\ chunk' = LineChunk(acc, l)
                 /\ produced' = Append(produced, LineChunk(acc, l))
    /\ UNCHANGED <<configVars, adapter, feed, peer, me, req, vendorReq, vendorResp, resp, flusherOK, call, status, goroutines, scanErr, exitPath, sent,
                   sentOnDone, ctxDone, ctxSeen, bodyCloses, chClosed, writeVars>>

\* An end of the body that is reported to the consumer as a read error.
ScanEOFAsError ==
    /\ wpc = "scan"
    /\ wpc' = "selectErr"
    /\ exitPath' = "eof"
    /\ chunk' = ReadErrChunk
    /\ produced' = Append(produced, ReadErrChunk)
    /\ UNCHANGED <<configVars, adapter, feed, peer, me, req, vendorReq, vendorResp, resp, flusherOK, call, status, goroutines, lines, scanErr, acc,
                   sent, sentOnDone, ctxDone, ctxSeen, bodyCloses, chClosed, writeVars>>

\* scanner.Scan() returns false at the end of the body: scanner.Err() is nil
\* and the goroutine's function ends.
ScanEOF ==
    /\ wpc = "scan"
    /\ wpc' = "defer1"
    /\ exitPath' = "eof"
    /\ UNCHANGED <<configVars, adapter, feed, peer, me, req, vendorReq, vendorResp, resp, flusherOK, call, status, goroutines, lines, scanErr, chunk, acc,
                   produced, sent, sentOnDone, ctxDone, ctxSeen, bodyCloses, chClosed, writeVars>>

\* scanner.Scan() returns false on a read error: a network failure, or the
\* read of the body aborted because the request's context was cancelled.
ScanError ==
    /\ wpc = "scan"
    /\ \E cause \in {"net"} \cup (IF ctxDone THEN {"ctx"} ELSE {}) : scanErr' = cause
    /\ wpc' = "selectErr"
    /\ chunk' = ReadErrChunk
    /\ produced' = Append(produced, ReadErrChunk)
    /\ UNCHANGED <<configVars, adapter, feed, peer, me, req, vendorReq, vendorResp, resp, flusherOK, call, status, goroutines, lines, acc, exitPath, sent,
                   sentOnDone, ctxDone, ctxSeen, bodyCloses, chClosed, writeVars>>

\* Whether the send at this position is a case of a select that also has a
\* <-ctx.Done() case.
SelectHasDone(pc) == pc \in {"select", "selectErr"}

\* A decode-error send that is not followed by return.
AfterSendNoReturn(pc) == IF pc = "selectErr" THEN "defer1" ELSE "scan"

\* Where the goroutine goes after its send at this position was received.
AfterSend(pc) == IF pc = "select" THEN "scan" ELSE "defer1"

\* How the goroutine left, when it leaves after the send at this position.
SendExit(pc) == IF pc = "sendDecodeErr" THEN "decode" ELSE IF pc = "selectErr" THEN "read" ELSE "none"

\* A send that is repeated: the goroutine does not move on after it.
HandOffResend ==
    /\ wpc \in {"select", "sendDecodeErr", "selectErr"}
    /\ cpc = "range"
    /\ sent' = Append(sent, chunk)
    /\ sentOnDone' = sentOnDone + (IF ctxDone THEN 1 ELSE 0)
    /\ cur' = chunk
    /\ cpc' = "handle"
    /\ UNCHANGED <<configVars, adapter, feed, peer, me, req, vendorReq, vendorResp, resp, flusherOK, call, status, goroutines, workerVars, ctxDone,
                   bodyCloses, chClosed, frames, flushed, headers, ret>>

\* A send on a channel that both requests' calls of Write range over: the
\* chunk is received by the request's own Write or by the other request's.
HandOffSharedChannel ==
    /\ wpc \in {"select", "sendDecodeErr", "selectErr"}
    /\ wpc' = AfterSend(wpc)
    /\ exitPath' = SendExit(wpc)
    /\ \/ /\ cpc = "range"
          /\ sent' = Append(sent, chunk)
          /\ sentOnDone' = sentOnDone + (IF ctxDone THEN 1 ELSE 0)
          /\ cur' = chunk
          /\ cpc' = "handle"
          /\ UNCHANGED peer
       \/ /\ peer # NoRequest
          /\ peer.call = "chan"
          /\ peer.cpc = "range"
          /\ peer' = [peer EXCEPT !.sent = Append(@, chunk), !.cur = chunk, !.cpc = "handle"]
          /\ UNCHANGED <<sent, sentOnDone, cur, cpc>>
    /\ UNCHANGED <<configVars, adapter, feed, me, req, vendorReq, vendorResp, resp, flusherOK, call, status, goroutines, lines, scanErr, chunk, acc,
                   produced, ctxDone, ctxSeen, bodyCloses, chClosed, frames, flushed, headers, ret>>

\* ch <- chunk meets Write's receive in `for chunk := range chunks`: ch is
\* unbuffered, so the send completes exactly when the loop receives.
HandOff ==
    /\ wpc \in {"select", "sendDecodeErr", "selectErr"}
    /\ cpc = "range"
    /\ sent' = Append(sent, chunk)
    /\ sentOnDone' = sentOnDone + (IF ctxDone THEN 1 ELSE 0)
    /\ cur' = chunk
    /\ cpc' = "handle"
    /\ wpc' = AfterSend(wpc)
    /\ exitPath' = SendExit(wpc)
    /\ UNCHANGED <<configVars, adapter, feed, peer, me, req, vendorReq, vendorResp, resp, flusherOK, call, status, goroutines, lines, scanErr, chunk, acc,
                   produced, ctxDone, ctxSeen, bodyCloses, chClosed, frames, flushed, headers, ret>>

\* A <-ctx.Done() case that continues the scan loop instead of returning.
CtxDoneCaseContinue ==
    /\ SelectHasDone(wpc)
    /\ wpc \in {"select", "sendDecodeErr", "selectErr"}
    /\ ctxDone
    /\ ctxSeen' = TRUE
    /\ wpc' = IF wpc = "selectErr" THEN "defer1" ELSE "scan"
    /\ exitPath' = IF wpc = "selectErr" THEN "readCancel" ELSE "none"
    /\ UNCHANGED <<configVars, adapter, feed, peer, me, req, vendorReq, vendorResp, resp, flusherOK, call, status, goroutines, lines, scanErr, chunk, acc,
                   produced, sent, sentOnDone, ctxDone, bodyCloses, chClosed, writeVars>>

\* The <-ctx.Done() case of a select: the content selects return, the select
\* after the scan loop falls to the end of the function.
CtxDoneCase ==
    /\ SelectHasDone(wpc)
    /\ wpc \in {"select", "sendDecodeErr", "selectErr"}
    /\ ctxDone
    /\ ctxSeen' = TRUE
    /\ wpc' = "defer1"
    /\ exitPath' = IF wpc = "selectErr" THEN "readCancel" ELSE "cancel"
    /\ UNCHANGED <<configVars, adapter, feed, peer, me, req, vendorReq, vendorResp, resp, flusherOK, call, status, goroutines, lines, scanErr, chunk, acc,
                   produced, sent, sentOnDone, ctxDone, bodyCloses, chClosed, writeVars>>

\* The deferred calls in the order they run: defer close(ch) was registered
\* first and defer httpResp.Body.Close() second, and they run last-in
\* first-out.
\* A goroutine that never defers close(ch).
DeferOrderNoCloseCh == <<"Body.Close", "Body.Close">>

DeferOrder == <<"Body.Close", "close(ch)">>

\* A goroutine that defers close(ch) only.
RunDeferredNoBodyClose(d) ==
    /\ chClosed' = TRUE
    /\ UNCHANGED bodyCloses

RunDeferred(d) ==
    IF d = "Body.Close"
    THEN /\ bodyCloses' = Append(bodyCloses, "goroutine")
         /\ UNCHANGED chClosed
    ELSE /\ chClosed' = TRUE
         /\ UNCHANGED bodyCloses

\* A goroutine whose first deferred call to run is close(ch).
Defer1ClosesChannel ==
    /\ wpc = "defer1"
    /\ RunDeferred("close(ch)")
    /\ wpc' = "defer2"
    /\ UNCHANGED <<configVars, adapter, feed, peer, me, req, vendorReq, vendorResp, resp, flusherOK, call, status, goroutines, lines, scanErr, chunk, acc,
                   exitPath, produced, sent, sentOnDone, ctxDone, ctxSeen, writeVars>>

\* The goroutine's function returns: the deferred call registered last runs.
Defer1 ==
    /\ wpc = "defer1"
    /\ RunDeferred(DeferOrder[1])
    /\ wpc' = "defer2"
    /\ UNCHANGED <<configVars, adapter, feed, peer, me, req, vendorReq, vendorResp, resp, flusherOK, call, status, goroutines, lines, scanErr, chunk, acc,
                   exitPath, produced, sent, sentOnDone, ctxDone, ctxSeen, writeVars>>

Defer2 ==
    /\ wpc = "defer2"
    /\ RunDeferred(DeferOrder[2])
    /\ wpc' = "exited"
    /\ UNCHANGED <<configVars, adapter, feed, peer, me, req, vendorReq, vendorResp, resp, flusherOK, call, status, goroutines, lines, scanErr, chunk, acc,
                   exitPath, produced, sent, sentOnDone, ctxDone, ctxSeen, writeVars>>

----------------------------------------------------------------------------
\* stream.Write, called by handleChatCompletions with the channel

\* One frame "data: <json>\n\n" carrying an sseChunk: content is omitted from
\* the JSON when empty, finish_reason is null or a string, usage is omitted
\* when nil.
SSEFrame(c, content, finish, usage) ==
    [kind |-> "chunk", prefix |-> "data: ", suffix |-> "\n\n", id |-> c.ID,
     object |-> "chat.completion.chunk", model |-> c.Model, index |-> 0,
     content |-> content, finish_reason |-> finish, usage |-> usage]

\* A sentinel written as a bare line "[DONE]\n".
DoneFrameBareLine ==
    [kind |-> "[DONE]", prefix |-> "", suffix |-> "\n", id |-> "",
     object |-> "", model |-> "", index |-> 0,
     content |-> "", finish_reason |-> "null", usage |-> NoUsage]

\* The frame "data: [DONE]\n\n".
DoneFrame ==
    [kind |-> "[DONE]", prefix |-> "data: ", suffix |-> "\n\n", id |-> "",
     object |-> "", model |-> "", index |-> 0,
     content |-> "", finish_reason |-> "null", usage |-> NoUsage]

\* A content event that already carries the usage of the final chunk.
ContentFrameWithUsage(c) == SSEFrame(c, c.Delta, "null", c.Usage)

\* The event flushed before the finish event when the final chunk has content.
ContentFrame(c) == SSEFrame(c, c.Delta, "null", NoUsage)

\* An event whose FinishReason is a plain string, empty when not final.
EventFrameEmptyFinish(c) ==
    IF c.Done THEN SSEFrame(c, "", "stop", c.Usage)
    ELSE SSEFrame(c, c.Delta, "", NoUsage)

\* The event written at the end of an iteration of the loop.
EventFrame(c) ==
    IF c.Done THEN SSEFrame(c, "", "stop", c.Usage)
    ELSE SSEFrame(c, c.Delta, "null", NoUsage)

\* An error check that is skipped on a chunk with Done set.
IsErrorChunkUnlessDone(c) == c.Error # "nil" /\ ~c.Done

\* if chunk.Error != nil
IsErrorChunk(c) == c.Error # "nil"

\* A Write that starts its loop without setting the SSE headers.
WriteStartNoHeaders ==
    /\ cpc = "write"
    /\ IF flusherOK
       THEN /\ cpc' = "range"
            /\ UNCHANGED <<ret, headers>>
       ELSE /\ ret' = "errFlusher"
            /\ cpc' = "returned"
            /\ UNCHANGED headers
    /\ UNCHANGED <<configVars, adapter, feed, peer, me, req, vendorReq, vendorResp, resp, flusherOK, call, status, goroutines, workerVars, sent, sentOnDone,
                   ctxDone, bodyCloses, chClosed, cur, frames, flushed>>

\* Write asserts the Flusher and sets the SSE headers.
WriteStart ==
    /\ cpc = "write"
    /\ IF flusherOK
       THEN /\ headers' = {h \in headers : h[1] \notin {"Content-Type", "Cache-Control", "Connection"}}
                            \cup {<<"Content-Type", "text/event-stream">>,
                                  <<"Cache-Control", "no-cache">>,
                                  <<"Connection", "keep-alive">>}
            /\ cpc' = "range"
            /\ UNCHANGED ret
       ELSE /\ ret' = "errFlusher"
            /\ cpc' = "returned"
            /\ UNCHANGED headers
    /\ UNCHANGED <<configVars, adapter, feed, peer, me, req, vendorReq, vendorResp, resp, flusherOK, call, status, goroutines, workerVars, sent, sentOnDone,
                   ctxDone, bodyCloses, chClosed, cur, frames, flushed>>

\* The range loop finds ch closed and ends.
RangeClosed ==
    /\ cpc = "range"
    /\ chClosed
    /\ cpc' = "writeDone"
    /\ UNCHANGED <<configVars, adapter, feed, peer, me, req, vendorReq, vendorResp, resp, flusherOK, call, status, goroutines, workerVars, sent, sentOnDone,
                   ctxDone, bodyCloses, chClosed, cur, frames, flushed, headers, ret>>

\* A loop body without the extra content event: a final chunk goes straight
\* to its finish event.
HandleNoSplit ==
    /\ cpc = "handle"
    /\ IF IsErrorChunk(cur)
       THEN /\ ret' = "errChunk"
            /\ cpc' = "returned"
       ELSE /\ cpc' = "writeEvent"
            /\ UNCHANGED ret
    /\ UNCHANGED <<configVars, adapter, feed, peer, me, req, vendorReq, vendorResp, resp, flusherOK, call, status, goroutines, workerVars, sent, sentOnDone,
                   ctxDone, bodyCloses, chClosed, cur, frames, flushed, headers>>

\* The head of the loop body: an error chunk makes Write return its error; a
\* final chunk with content goes through the extra content event first.
Handle ==
    /\ cpc = "handle"
    /\ IF IsErrorChunk(cur)
       THEN /\ ret' = "errChunk"
            /\ cpc' = "returned"
       ELSE /\ cpc' = IF cur.Done /\ cur.Delta # "" THEN "writeContent" ELSE "writeEvent"
            /\ UNCHANGED ret
    /\ UNCHANGED <<configVars, adapter, feed, peer, me, req, vendorReq, vendorResp, resp, flusherOK, call, status, goroutines, workerVars, sent, sentOnDone,
                   ctxDone, bodyCloses, chClosed, cur, frames, flushed, headers>>

\* A write whose error is dropped.
FprintfErrIgnored(at, frame, next, err) ==
    /\ cpc = at
    /\ \E ok \in BOOLEAN :
         frames' = IF ok THEN Append(frames, frame) ELSE frames
    /\ cpc' = next
    /\ UNCHANGED <<configVars, adapter, feed, peer, me, req, vendorReq, vendorResp, resp, flusherOK, call, status, goroutines, workerVars, sent, sentOnDone,
                   ctxDone, bodyCloses, chClosed, cur, flushed, headers, ret>>

\* fmt.Fprintf(w, "data: %s\n\n", jsonBytes): the frame is written, or the
\* write fails (the client is gone) and Write returns the error.
Fprintf(at, frame, next, err) ==
    /\ cpc = at
    /\ \E ok \in BOOLEAN :
         IF ok
         THEN /\ frames' = Append(frames, frame)
              /\ cpc' = next
              /\ UNCHANGED ret
         ELSE /\ ret' = err
              /\ cpc' = "returned"
              /\ UNCHANGED frames
    /\ UNCHANGED <<configVars, adapter, feed, peer, me, req, vendorReq, vendorResp, resp, flusherOK, call, status, goroutines, workerVars, sent, sentOnDone,
                   ctxDone, bodyCloses, chClosed, cur, flushed, headers>>

\* flusher.Flush()
Flush(at, next) ==
    /\ cpc = at
    /\ flushed' = Len(frames)
    /\ cpc' = next
    /\ UNCHANGED <<configVars, adapter, feed, peer, me, req, vendorReq, vendorResp, resp, flusherOK, call, status, goroutines, workerVars, sent, sentOnDone,
                   ctxDone, bodyCloses, chClosed, cur, frames, headers, ret>>

\* A content event marshaled after the finish reason was set on the event.
WriteContentWithFinish ==
    Fprintf("writeContent", SSEFrame(cur, cur.Delta, "stop", NoUsage), "flushContent", "errWrite")

\* The content event written before the finish event of a final chunk.
WriteContent == Fprintf("writeContent", ContentFrame(cur), "flushContent", "errWrite")

\* A content event that is left in the buffer until the finish event is flushed.
FlushContentSkipped ==
    /\ cpc = "flushContent"
    /\ cpc' = "writeEvent"
    /\ UNCHANGED <<configVars, adapter, feed, peer, me, req, vendorReq, vendorResp, resp, flusherOK, call, status, goroutines, workerVars, sent, sentOnDone,
                   ctxDone, bodyCloses, chClosed, cur, frames, flushed, headers, ret>>

FlushContent == Flush("flushContent", "writeEvent")

WriteEvent == Fprintf("writeEvent", EventFrame(cur), "flushEvent", "errWrite")

FlushEvent == Flush("flushEvent", "range")

WriteDone == Fprintf("writeDone", DoneFrame, "flushDone", "errDoneMarker")

\* The last Flush and return nil.
FlushDone ==
    /\ cpc = "flushDone"
    /\ flushed' = Len(frames)
    /\ ret' = "nil"
    /\ cpc' = "returned"
    /\ UNCHANGED <<configVars, adapter, feed, peer, me, req, vendorReq, vendorResp, resp, flusherOK, call, status, goroutines, workerVars, sent, sentOnDone,
                   ctxDone, bodyCloses, chClosed, cur, frames, headers>>

----------------------------------------------------------------------------
\* The request's context

\* r.Context() is cancelled while the request is served: the client
\* disconnected or a deadline passed.
Cancel ==
    /\ call = "chan"
    /\ cpc # "returned"
    /\ ~ctxDone
    /\ ctxDone' = TRUE
    /\ UNCHANGED <<configVars, adapter, feed, peer, me, req, vendorReq, vendorResp, resp, flusherOK, call, status, goroutines, workerVars, sent, sentOnDone,
                   bodyCloses, chClosed, writeVars>>

\* r.Context() is cancelled when the handler has returned.
HandlerReturned ==
    /\ call = "chan"
    /\ cpc = "returned"
    /\ ~ctxDone
    /\ ctxDone' = TRUE
    /\ UNCHANGED <<configVars, adapter, feed, peer, me, req, vendorReq, vendorResp, resp, flusherOK, call, status, goroutines, workerVars, sent, sentOnDone,
                   bodyCloses, chClosed, writeVars>>

----------------------------------------------------------------------------
\* Request translation

\* A loop that passes every role on as it is.
RECURSIVE GeminiFoldNoRename(_, _, _)
GeminiFoldNoRename(msgs, i, gr) ==
    IF i > Len(msgs) THEN gr
    ELSE LET msg == msgs[i]
         IN  IF msg.Role = "system"
             THEN GeminiFoldNoRename(msgs, i + 1,
                    [gr EXCEPT !.SystemInstruction =
                        IF ~@.present
                        THEN [present |-> TRUE, Role |-> "", Parts |-> <<msg.Content>>]
                        ELSE [@ EXCEPT !.Parts = Append(@, msg.Content)]])
             ELSE GeminiFoldNoRename(msgs, i + 1,
                    [gr EXCEPT !.Contents =
                        Append(@, [Role |-> msg.Role, Parts |-> <<msg.Content>>])])

\* The loop of toGeminiRequest from message i on: a system message becomes a
\* part of SystemInstruction, any other one a content with its role, where
\* "assistant" is called "model".
RECURSIVE GeminiFold(_, _, _)
GeminiFold(msgs, i, gr) ==
    IF i > Len(msgs) THEN gr
    ELSE LET msg == msgs[i]
             role == IF msg.Role = "assistant" THEN "model" ELSE msg.Role
         IN  IF msg.Role = "system"
             THEN GeminiFold(msgs, i + 1,
                    [gr EXCEPT !.SystemInstruction =
                        IF ~@.present
                        THEN [present |-> TRUE, Role |-> "", Parts |-> <<msg.Content>>]
                        ELSE [@ EXCEPT !.Parts = Append(@, msg.Content)]])
             ELSE GeminiFold(msgs, i + 1,
                    [gr EXCEPT !.Contents =
                        Append(@, [Role |-> role, Parts |-> <<msg.Content>>])])

\* A translation that always sends a systemInstruction, empty when there is
\* no system message.
toGeminiRequestAlwaysInstruction(r) ==
    LET gr == GeminiFold(r.Messages, 1,
                         [present |-> TRUE, Contents |-> <<>>,
                          SystemInstruction |-> [present |-> TRUE, Role |-> "", Parts |-> <<>>],
                          GenerationConfig |-> None])
    IN  IF r.MaxTokens > 0
        THEN [gr EXCEPT !.GenerationConfig = [present |-> TRUE, MaxOutputTokens |-> r.MaxTokens]]
        ELSE gr

\* A translation that passes every role on as it is.
toGeminiRequestNoRename(r) ==
    LET gr == GeminiFoldNoRename(r.Messages, 1,
                                 [present |-> TRUE, Contents |-> <<>>, SystemInstruction |-> None,
                                  GenerationConfig |-> None])
    IN  IF r.MaxTokens > 0
        THEN [gr EXCEPT !.GenerationConfig = [present |-> TRUE, MaxOutputTokens |-> r.MaxTokens]]
        ELSE gr

toGeminiRequest(r) ==
    LET gr == GeminiFold(r.Messages, 1,
                         [present |-> TRUE, Contents |-> <<>>, SystemInstruction |-> None,
                          GenerationConfig |-> None])
    IN  IF r.MaxTokens > 0
        THEN [gr EXCEPT !.GenerationConfig = [present |-> TRUE, MaxOutputTokens |-> r.MaxTokens]]
        ELSE gr

defaultMaxTokens == 1024

\* strings.Join(elems, sep) from element i on, appended to what is built.
RECURSIVE JoinFrom(_, _, _, _)
JoinFrom(elems, sep, i, b) ==
    IF i > Len(elems) THEN b
    ELSE JoinFrom(elems, sep, i + 1, b \o sep \o elems[i])

\* A join that leaves the separator out.
strings_JoinNoSeparator(elems, sep) ==
    IF Len(elems) = 0 THEN <<>>
    ELSE JoinFrom(elems, <<>>, 2, elems[1])

strings_Join(elems, sep) ==
    IF Len(elems) = 0 THEN <<>>
    ELSE JoinFrom(elems, sep, 2, elems[1])

\* The loop of toAnthropicRequest from message i on: the system messages go
\* to systemParts, the other ones to ar.Messages as they are.
RECURSIVE AnthropicFold(_, _, _)
AnthropicFold(msgs, i, st) ==
    IF i > Len(msgs) THEN st
    ELSE LET msg == msgs[i]
         IN  IF msg.Role = "system"
             THEN AnthropicFold(msgs, i + 1,
                                [st EXCEPT !.systemParts = Append(@, msg.Content)])
             ELSE AnthropicFold(msgs, i + 1,
                                [st EXCEPT !.Messages =
                                    Append(@, [Role |-> msg.Role, Content |-> msg.Content])])

\* A translation that passes max_tokens on as it came.
toAnthropicRequestNoDefault(r) ==
    LET st == AnthropicFold(r.Messages, 1, [systemParts |-> <<>>, Messages |-> <<>>])
    IN  [present |-> TRUE,
         Model |-> r.Model,
         MaxTokens |-> r.MaxTokens,
         System |-> IF Len(st.systemParts) > 0 THEN strings_Join(st.systemParts, <<"\n">>) ELSE <<>>,
         Messages |-> st.Messages,
         Stream |-> FALSE]

\* System is the empty string, which the JSON omits, when nothing is set.
toAnthropicRequest(r) ==
    LET st == AnthropicFold(r.Messages, 1, [systemParts |-> <<>>, Messages |-> <<>>])
    IN  [present |-> TRUE,
         Model |-> r.Model,
         MaxTokens |-> IF r.MaxTokens > 0 THEN r.MaxTokens ELSE defaultMaxTokens,
         System |-> IF Len(st.systemParts) > 0 THEN strings_Join(st.systemParts, <<"\n">>) ELSE <<>>,
         Messages |-> st.Messages,
         Stream |-> FALSE]

----------------------------------------------------------------------------
\* ChatCompletion, called by handleChatCompletions when "stream" is false

\* The vendor's answers to the request.
Bodies == IF adapter = "google" THEN GeminiBodies ELSE AnthropicBodies

\* The text of the first block of type "text" from block i on, "" when there
\* is none.
RECURSIVE FirstText(_, _)
FirstText(blocks, i) ==
    IF i > Len(blocks) THEN ""
    ELSE IF blocks[i].Type = "text" THEN blocks[i].Text
    ELSE FirstText(blocks, i + 1)

\* An answer without a usable candidate returned as a ChatResponse with empty
\* Content.
GeminiResultEmptyContent(r, b) ==
    IF Len(b.candidates) = 0 \/ Len(b.candidates[1]) = 0
    THEN [call |-> "ok", resp |-> ChatResponse("", r.Model, "", 0, 0, 0)]
    ELSE [call |-> "ok",
          resp |-> IF b.usageMetadata.present
                   THEN ChatResponse("", r.Model, b.candidates[1][1],
                                     b.usageMetadata.PromptTokens,
                                     b.usageMetadata.CompletionTokens,
                                     b.usageMetadata.TotalTokens)
                   ELSE ChatResponse("", r.Model, b.candidates[1][1], 0, 0, 0)]

\* What GoogleProvider.ChatCompletion returns on a decoded body with status
\* 200: the error of a response without candidates or without parts in the
\* first one, or the ChatResponse.
GeminiResult(r, b) ==
    IF Len(b.candidates) = 0 \/ Len(b.candidates[1]) = 0
    THEN [call |-> "errEmpty", resp |-> None]
    ELSE [call |-> "ok",
          resp |-> IF b.usageMetadata.present
                   THEN ChatResponse("", r.Model, b.candidates[1][1],
                                     b.usageMetadata.PromptTokens,
                                     b.usageMetadata.CompletionTokens,
                                     b.usageMetadata.TotalTokens)
                   ELSE ChatResponse("", r.Model, b.candidates[1][1], 0, 0, 0)]

\* What AnthropicProvider.ChatCompletion returns on a decoded body with
\* status 200.
AnthropicResult(r, b) ==
    [call |-> "ok",
     resp |-> ChatResponse(b.id, b.model, FirstText(b.content, 1),
                           b.inputTokens, b.outputTokens, b.inputTokens + b.outputTokens)]

\* A ChatCompletion that defers nothing.
CompleteDeferredNothing == <<>>

\* The deferred httpResp.Body.Close() of ChatCompletion.
CompleteDeferred == <<"ChatCompletion">>

\* The handler calls p.ChatCompletion(r.Context(), &req): the request is
\* translated and sent; a failure to build or send it is returned; once there
\* is a response its body is closed when the function returns, be it with the
\* error of a status other than 200, of a body that does not decode, of an
\* empty answer, or with the ChatResponse.
ChatCompletion ==
    /\ cpc = "handler"
    /\ ~req.Stream
    /\ call = "pending"
    /\ headers' = headers \cup {<<"X-LLMRouter-Provider", adapter>>, <<"X-LLMRouter-Model", req.Model>>}
    /\ vendorReq' = IF adapter = "google" THEN toGeminiRequest(req) ELSE toAnthropicRequest(req)
    /\ \E outcome \in {"errRequest", "errDo", "response"} :
         IF outcome # "response"
         THEN /\ call' = outcome
              /\ UNCHANGED <<status, vendorResp, resp, bodyCloses>>
         ELSE \E st \in Statuses, b \in Bodies :
                LET result == IF StatusIsError(st) THEN [call |-> "errStatus", resp |-> None]
                              ELSE IF b.line = "bad" THEN [call |-> "errDecode", resp |-> None]
                              ELSE IF adapter = "google" THEN GeminiResult(req, b)
                              ELSE AnthropicResult(req, b)
                IN  /\ status' = st
                    /\ vendorResp' = b
                    /\ call' = result.call
                    /\ resp' = result.resp
                    /\ bodyCloses' = bodyCloses \o CompleteDeferred
    /\ cpc' = IF call' = "ok" THEN "respondJSON" ELSE "respond502"
    /\ UNCHANGED <<configVars, adapter, feed, peer, me, req, flusherOK, goroutines, workerVars, sent, sentOnDone,
                   ctxDone, chClosed, cur, frames, flushed, ret>>

\* The handler's answer with the ChatResponse.
RespondJSON ==
    /\ cpc = "respondJSON"
    /\ headers' = {h \in headers : h[1] # "Content-Type"} \cup {<<"Content-Type", "application/json">>}
    /\ frames' = Append(frames, [kind |-> "json", resp |-> resp])
    /\ cpc' = "returned"
    /\ UNCHANGED <<configVars, adapter, feed, peer, me, req, vendorReq, vendorResp, resp, flusherOK, call, status,
                   goroutines, workerVars, sent, sentOnDone, ctxDone, bodyCloses, chClosed, cur,
                   flushed, ret>>

----------------------------------------------------------------------------
\* Two requests in flight

\* What a call of handleChatCompletions and of ChatCompletionStream holds in
\* its parameters and local variables, and the goroutine in the variables it
\* captured: w and its headers, r.Context(), httpResp, scanner, ch, the
\* accumulators.
Request ==
    [adapter |-> adapter, flusherOK |-> flusherOK, call |-> call, status |-> status,
     goroutines |-> goroutines, wpc |-> wpc, lines |-> lines, scanErr |-> scanErr,
     chunk |-> chunk, acc |-> acc, exitPath |-> exitPath, produced |-> produced,
     sent |-> sent, sentOnDone |-> sentOnDone, ctxDone |-> ctxDone, ctxSeen |-> ctxSeen,
     bodyCloses |-> bodyCloses, chClosed |-> chClosed, cpc |-> cpc, cur |-> cur,
     frames |-> frames, flushed |-> flushed, headers |-> headers, ret |-> ret]

\* A second request served by provider a, as net/http hands it to the handler.
NewPeer(a) ==
    [adapter |-> a, flusherOK |-> TRUE, call |-> "pending", status |-> 0,
     goroutines |-> 0, wpc |-> "none", lines |-> <<>>, scanErr |-> "nil",
     chunk |-> ZeroChunk, acc |-> ZeroAcc, exitPath |-> "none", produced |-> <<>>,
     sent |-> <<>>, sentOnDone |-> 0, ctxDone |-> FALSE, ctxSeen |-> FALSE,
     bodyCloses |-> <<>>, chClosed |-> FALSE, cpc |-> "handler", cur |-> ZeroChunk,
     frames |-> <<>>, flushed |-> 0, headers |-> {}, ret |-> "none"]

\* The Go scheduler turns from the goroutines of one request to those of the
\* other: the next steps are taken in the other request's variables.
Switch ==
    /\ peer # NoRequest
    /\ peer' = Request
    /\ me' = 3 - me
    /\ adapter' = peer.adapter
    /\ flusherOK' = peer.flusherOK
    /\ call' = peer.call
    /\ status' = peer.status
    /\ goroutines' = peer.goroutines
    /\ wpc' = peer.wpc
    /\ lines' = peer.lines
    /\ scanErr' = peer.scanErr
    /\ chunk' = peer.chunk
    /\ acc' = peer.acc
    /\ exitPath' = peer.exitPath
    /\ produced' = peer.produced
    /\ sent' = peer.sent
    /\ sentOnDone' = peer.sentOnDone
    /\ ctxDone' = peer.ctxDone
    /\ ctxSeen' = peer.ctxSeen
    /\ bodyCloses' = peer.bodyCloses
    /\ chClosed' = peer.chClosed
    /\ cpc' = peer.cpc
    /\ cur' = peer.cur
    /\ frames' = peer.frames
    /\ flushed' = peer.flushed
    /\ headers' = peer.headers
    /\ ret' = peer.ret
    /\ UNCHANGED <<configVars, feed, req, vendorReq, vendorResp, resp>>

----------------------------------------------------------------------------
Worker == ScanLine \/ ScanEOF \/ ScanError \/ CtxDoneCase \/ Defer1 \/ Defer2

Writer ==
    \/ WriteStart \/ RangeClosed \/ Handle \/ WriteContent \/ FlushContent
    \/ WriteEvent \/ FlushEvent \/ WriteDone \/ FlushDone

Next ==
    \/ ChatCompletionStream
    \/ Respond502
    \/ ScanLine
    \/ ScanEOF
    \/ ScanError
    \/ HandOff
    \/ CtxDoneCase
    \/ Defer1
    \/ Defer2
    \/ WriteStart
    \/ RangeClosed
    \/ Handle
    \/ WriteContent
    \/ FlushContent
    \/ WriteEvent
    \/ FlushEvent
    \/ WriteDone
    \/ FlushDone
    \/ Cancel
    \/ HandlerReturned

Spec == Init /\ [][Next]_vars

ServerInit == Init /\ flusherOK

\* A request whose upstream keeps to the vendor's streaming protocol.
ProtocolInit == Start("protocol")

ProtocolSpec == ProtocolInit /\ [][Next]_vars

\* Two streaming requests to the same provider in flight at the same time,
\* each with its own upstream response.
PairInit ==
    /\ Configured
    /\ feed = "pair"
    /\ me = 1
    /\ Streaming
    /\ NewRequest
    /\ flusherOK
    /\ peer = NewPeer(adapter)

PairNext ==
    \/ ChatCompletionStream
    \/ Respond502
    \/ ScanLine
    \/ ScanEOF
    \/ ScanError
    \/ HandOff
    \/ CtxDoneCase
    \/ Defer1
    \/ Defer2
    \/ WriteStart
    \/ RangeClosed
    \/ Handle
    \/ WriteContent
    \/ FlushContent
    \/ WriteEvent
    \/ FlushEvent
    \/ WriteDone
    \/ FlushDone
    \/ Cancel
    \/ HandlerReturned
    \/ Switch

PairSpec == PairInit /\ [][PairNext]_vars

\* A request with "stream": false.
CompleteInit ==
    /\ Configured
    /\ feed = "any"
    /\ peer = NoRequest
    /\ me = 1
    /\ req \in CompleteRequests
    /\ vendorReq = None
    /\ vendorResp = None
    /\ resp = None
    /\ NewRequest

CompleteNext ==
    \/ ChatCompletion
    \/ Respond502
    \/ RespondJSON

CompleteSpec == CompleteInit /\ [][CompleteNext]_vars

\* A request of either kind: handleChatCompletions branches on req.Stream.
ServeInit ==
    /\ Configured
    /\ feed = "any"
    /\ peer = NoRequest
    /\ me = 1
    /\ req \in CompleteRequests \cup {StreamRequest}
    /\ vendorReq = None
    /\ vendorResp = None
    /\ resp = None
    /\ NewRequest

ServeNext ==
    \/ Next
    \/ ChatCompletion
    \/ RespondJSON

ServeSpec == ServeInit /\ [][ServeNext]_vars

\* No variable of the environment has a key that is the beginning of the key
\* of another: which of the two the provider keeps depends on the order of
\* Go's map iteration.
ConflictFree(env) ==
    \A e1, e2 \in env :
        (e1 # e2 /\ strings_HasPrefix(e1.name, <<"LLMROUTER", "_">>)
                 /\ strings_HasPrefix(e2.name, <<"LLMROUTER", "_">>)) =>
            ~IsPathPrefix(strings_Split(EnvKey(e1.name), "."), strings_Split(EnvKey(e2.name), "."))

\* The process at the start of main: nothing is loaded and no request is
\* served yet.
ConfigInit ==
    /\ yamlFile \in YamlFiles
    /\ dotenvFile \in SUBSET DotenvVars
    /\ environ \in {env \in SUBSET EnvVars : ConflictFree(env)}
    /\ cfg = NotLoaded
    /\ feed = "any"
    /\ peer = NoRequest
    /\ me = 1
    /\ Streaming
    /\ NewRequest
    /\ adapter = "google"
    /\ flusherOK

ConfigNext == Load

ConfigSpec == ConfigInit /\ [][ConfigNext]_vars

\* The running server in front of an upstream that keeps to the protocol.
ServerProtocolInit == ProtocolInit /\ flusherOK

FairProtocolSpec ==
    /\ ServerProtocolInit
    /\ [][Next]_vars
    /\ WF_vars(Worker)
    /\ WF_vars(HandOff)
    /\ WF_vars(Writer)
    /\ WF_vars(ChatCompletionStream \/ Respond502)
    /\ WF_vars(HandlerReturned)

\* The running server: the ResponseWriter net/http hands to the handler is a
\* Flusher, the Go scheduler runs every goroutine that can take a step, and
\* net/http cancels the request's context once the handler has returned.
FairSpec ==
    /\ ServerInit
    /\ [][Next]_vars
    /\ WF_vars(Worker)
    /\ WF_vars(HandOff)
    /\ WF_vars(Writer)
    /\ WF_vars(ChatCompletionStream \/ Respond502)
    /\ WF_vars(HandlerReturned)

----------------------------------------------------------------------------
\* Properties

ErrorChunksOf(q) == {i \in DOMAIN q : q[i].Error # "nil"}

DoneFramesOf(q) == {i \in DOMAIN q : q[i].kind = "[DONE]"}

BodyClosedByGoroutine == bodyCloses = <<"goroutine">>

\* C1: on every stream at most one chunk with done=true is sent on the chunk
\* source and no chunk is sent after it: a chunk with Done set is the last of
\* the chunks handed over.
C1_DoneChunkIsLast == \A i \in DOMAIN sent : sent[i].Done => i = Len(sent)

\* C2: when Write receives a chunk with Error set it returns that error,
\* writes no frame for that chunk and none afterwards, and the output has no
\* [DONE] frame, wherever in the stream the error chunk arrives.
C2_ErrorChunkAbortsWrite ==
    /\ [](ret = "errChunk" =>
            /\ cpc = "returned"
            /\ cur.Error # "nil"
            /\ DoneFramesOf(frames) = {})
    /\ [][(cpc = "handle" /\ cur.Error # "nil") =>
            /\ frames' = frames
            /\ (cpc' # cpc => cpc' = "returned" /\ ret' = "errChunk")]_vars
    /\ [][ret = "errChunk" => frames' = frames /\ ret' = ret]_vars

C2_Witness ==
    /\ ret = "errChunk"
    /\ Len(sent) >= 2
    /\ Len(frames) >= 1
    /\ sent[Len(sent)].Error # "nil"

\* C3: the output of Write has the [DONE] frame exactly once and as its last
\* frame when Write returned nil, which it does only after the channel was
\* closed with no error chunk received; when Write returned an error the
\* output has no [DONE] frame.
C3_DoneSentinelOnlyOnSuccess ==
    /\ Cardinality(DoneFramesOf(frames)) <= 1
    /\ DoneFramesOf(frames) \subseteq {Len(frames)}
    /\ (ret = "nil" =>
          /\ DoneFramesOf(frames) = {Len(frames)}
          /\ Len(frames) >= 1
          /\ chClosed
          /\ ErrorChunksOf(sent) = {})
    /\ (ret \notin {"none", "nil"} => DoneFramesOf(frames) = {})
    /\ (cpc = "returned" /\ call = "chan" => ret # "none")

C3_Witness ==
    /\ ret = "nil"
    /\ Len(frames) >= 3
    /\ frames[Len(frames)] = DoneFrame

\* C4: when an upstream data event fails to decode, the goroutine builds
\* exactly one chunk with Done and Error set, hands over nothing else, reads no
\* further line, and once that chunk is taken it ends.
C4_DecodeFailureEndsWorker ==
    /\ []((lines # <<>> /\ lines[Len(lines)].line = "bad") =>
            /\ produced # <<>>
            /\ produced[Len(produced)].Done
            /\ produced[Len(produced)].Error = "decode"
            /\ ErrorChunksOf(produced) = {Len(produced)}
            /\ wpc \in {"sendDecodeErr", "defer1", "defer2", "exited"}
            /\ (wpc # "sendDecodeErr" =>
                  /\ exitPath = "decode"
                  /\ sent = produced))
    /\ [][(lines # <<>> /\ lines[Len(lines)].line = "bad") =>
            /\ lines' = lines
            /\ produced' = produced
            /\ (sent' # sent => sent' = Append(sent, produced[Len(produced)]))]_vars

C4_Witness ==
    /\ wpc = "exited"
    /\ exitPath = "decode"
    /\ Len(sent) >= 2
    /\ Len(lines) < MaxEvents

\* C5: after an upstream read or decode failure the goroutine eventually
\* closes the chunk source and the upstream connection, whether or not the
\* error chunk is delivered.
C5_FailureLeadsToClose ==
    (wpc \in {"sendDecodeErr", "selectErr"}) ~> (chClosed /\ BodyClosedByGoroutine)

\* C6: once the context's cancellation signal has fired, no further chunk is
\* handed to the consumer.
C6_NoHandOffAfterCancel == sentOnDone = 0

\* C7: if the context is cancelled before the stream completes, the goroutine
\* eventually closes the upstream connection and the chunk source, wherever
\* it is.
C7_CancelLeadsToClose ==
    [](ctxDone /\ goroutines = 1 => <>(wpc = "exited" /\ chClosed /\ BodyClosedByGoroutine))

\* C8: when the stream ends because the context was cancelled, also when the
\* cancellation aborted the pending read with an error, no chunk with Error
\* set is delivered.
C8_NoErrorChunkOnCancel ==
    (scanErr = "ctx" \/ exitPath \in {"cancel", "readCancel"}) => ErrorChunksOf(sent) = {}

\* C9: the response body of a started stream is closed exactly once on every
\* exit path of the goroutine, by the goroutine and by nobody else.
C9_BodyClosedOnceByWorker ==
    call = "chan" =>
        /\ Len(bodyCloses) <= 1
        /\ \A i \in DOMAIN bodyCloses : bodyCloses[i] = "goroutine"
        /\ (wpc = "exited" =>
              /\ exitPath \in {"eof", "decode", "read", "cancel", "readCancel"}
              /\ bodyCloses = <<"goroutine">>)
        /\ (wpc \in {"scan", "select", "sendDecodeErr", "selectErr"} => bodyCloses = <<>>)

C9_Witness ==
    /\ wpc = "exited"
    /\ exitPath = "cancel"
    /\ cpc = "returned"
    /\ bodyCloses = <<"goroutine">>

\* C10: ChatCompletionStream launches exactly one goroutine and returns the
\* channel when and only when the response has status 200; when the request
\* fails or the status is another one it returns an error, no channel,
\* launches no goroutine and has closed the body of any response it got.
C10_WorkerIffStatusOK ==
    /\ goroutines <= 1
    /\ (call = "pending" => goroutines = 0 /\ wpc = "none" /\ bodyCloses = <<>>)
    /\ (call # "pending" => (call = "chan" <=> status = http_StatusOK))
    /\ (call = "chan" => goroutines = 1 /\ wpc # "none")
    /\ (call \in {"errRequest", "errDo", "errStatus"} =>
          /\ goroutines = 0
          /\ wpc = "none"
          /\ ~chClosed
          /\ sent = <<>>
          /\ cpc \in {"respond502", "returned"}
          /\ bodyCloses = IF status = 0 THEN <<>> ELSE <<"ChatCompletionStream">>)

C10_Witness ==
    /\ call = "errStatus"
    /\ status = 429
    /\ cpc = "returned"
    /\ bodyCloses = <<"ChatCompletionStream">>

\* C11: the goroutine does not process the next upstream line until the
\* consumer has taken the chunk built from the previous one: at most one
\* built chunk awaits receipt, and while one does no line is read and no
\* chunk is built.
C11_OneChunkInFlight ==
    /\ [](/\ Len(produced) <= Len(sent) + 1
          /\ (wpc \in {"select", "sendDecodeErr", "selectErr"} => Len(produced) = Len(sent) + 1)
          /\ (wpc = "scan" => Len(produced) = Len(sent)))
    /\ [][(wpc \in {"select", "sendDecodeErr", "selectErr"}) =>
            (lines' = lines /\ produced' = produced)]_vars

C11_Witness ==
    /\ wpc = "select"
    /\ cpc \in {"handle", "writeEvent", "flushEvent"}
    /\ Len(sent) >= 1
    /\ Len(produced) = Len(sent) + 1

\* C12: the chunks the consumer received are a prefix of the chunks the
\* goroutine built: each is delivered at most once, in the order built, and
\* the chunk Write works on is the one received last.
C12_ReceivedIsPrefixOfProduced ==
    /\ [](/\ Len(sent) <= Len(produced)
          /\ \A i \in DOMAIN sent : sent[i] = produced[i]
          /\ (cpc \in {"handle", "writeContent", "flushContent", "writeEvent", "flushEvent"} =>
                sent # <<>> /\ cur = sent[Len(sent)]))
    /\ [][sent' # sent =>
            (Len(produced) > Len(sent) /\ sent' = Append(sent, produced[Len(sent) + 1]))]_vars

C12_Witness ==
    /\ Len(sent) >= 2
    /\ sent = produced
    /\ sent[1] # sent[2]
    /\ cpc = "range"

\* C13: when the upstream ends normally and the consumer keeps receiving, the
\* goroutine eventually closes the chunk source, and it closes it only after
\* every chunk it built, the terminal one included, was handed over.  Every
\* started goroutine whose upstream keeps to the protocol closes the chunk
\* source; one that reached the end of the input does so with nothing left
\* undelivered.
C13_NormalEndLeadsToClose ==
    /\ (goroutines = 1) ~> chClosed
    /\ (exitPath = "eof") ~> chClosed
    /\ [](exitPath = "eof" => sent = produced)
    /\ [](chClosed => wpc = "exited" /\ exitPath # "none")

C13_Witness ==
    /\ chClosed
    /\ exitPath = "eof"
    /\ Len(sent) >= 2
    /\ sent[Len(sent)].Done
    /\ sent[Len(sent)].Error = "nil"

\* A Gemini event with a fragment and a finishReason.
IsCombinedEvent(l) == l.line = "json" /\ l.ncand > 0 /\ l.nparts > 0 /\ l.finishReason # ""

\* A Gemini event with a fragment and no finishReason.
IsContentOnlyEvent(l) == l.line = "json" /\ l.ncand > 0 /\ l.nparts > 0 /\ l.finishReason = ""

\* A Gemini event with a finishReason and no fragment.
IsFinishOnlyEvent(l) == l.line = "json" /\ l.ncand > 0 /\ l.nparts = 0 /\ l.finishReason # ""

\* C14 as stated: given one event with content X and a finish marker, adapter
\* A yields exactly two chunks, (delta=X, done=false) and then (delta="",
\* done=true, usage if present).
C14_CombinedEventYieldsTwoChunks ==
    (adapter = "google" /\ Len(lines) = 1 /\ IsCombinedEvent(lines[1]) /\ scanErr = "nil") =>
        produced = << StreamChunk("", ReqModel, lines[1].text, FALSE, NoUsage, "nil"),
                      StreamChunk("", ReqModel, "", TRUE, lines[1].usageMetadata, "nil") >>

\* C14 amended: given one event with content X and a finish marker, adapter A
\* yields exactly one chunk (delta=X, done=true, usage if present); every such
\* event, wherever it comes, adds that one chunk.
C14_CombinedEventYieldsOneChunk ==
    /\ []((adapter = "google" /\ Len(lines) = 1 /\ IsCombinedEvent(lines[1]) /\ scanErr = "nil") =>
            /\ produced = << StreamChunk("", ReqModel, lines[1].text, TRUE,
                                         lines[1].usageMetadata, "nil") >>
            /\ (exitPath = "eof" => sent = produced))
    /\ [][(adapter = "google" /\ lines' # lines /\ IsCombinedEvent(lines'[Len(lines')])) =>
            produced' = Append(produced,
                               StreamChunk("", ReqModel, lines'[Len(lines')].text, TRUE,
                                           lines'[Len(lines')].usageMetadata, "nil"))]_vars

C14_Witness ==
    /\ adapter = "google"
    /\ Len(lines) = 1
    /\ IsCombinedEvent(lines[1])
    /\ exitPath = "eof"
    /\ wpc = "exited"
    /\ Len(sent) = 1
    /\ sent[1].Delta = "a"
    /\ sent[1].Done
    /\ sent[1].Usage.present

\* C15: given N events with content only and then one event with a finish
\* marker only, adapter A yields exactly N chunks with done=false, one per
\* event and in order, and then one chunk with done=true, an empty delta and no
\* error; all of them are handed over when the stream then ends.
C15_ContentThenFinish ==
    (/\ adapter = "google"
     /\ lines # <<>>
     /\ scanErr = "nil"
     /\ IsFinishOnlyEvent(lines[Len(lines)])
     /\ \A i \in 1..(Len(lines) - 1) : IsContentOnlyEvent(lines[i])) =>
        /\ Len(produced) = Len(lines)
        /\ \A i \in 1..(Len(lines) - 1) :
             produced[i] = StreamChunk("", ReqModel, lines[i].text, FALSE, NoUsage, "nil")
        /\ produced[Len(lines)].Done
        /\ produced[Len(lines)].Delta = ""
        /\ produced[Len(lines)].Error = "nil"
        /\ produced[Len(lines)].ID = ""
        /\ produced[Len(lines)].Model = ReqModel
        /\ (exitPath = "eof" => sent = produced)

C15_Witness ==
    /\ adapter = "google"
    /\ Len(lines) = 3
    /\ IsContentOnlyEvent(lines[1])
    /\ IsContentOnlyEvent(lines[2])
    /\ lines[1].text # lines[2].text
    /\ IsFinishOnlyEvent(lines[3])
    /\ exitPath = "eof"
    /\ Len(sent) = 3

\* An Anthropic stream start, k deltas, delta-meta, stop.
IsCompleteAnthropicStream(ls) ==
    /\ Len(ls) >= 3
    /\ ls[1].line = "json" /\ ls[1].type = "message_start" /\ ls[1].hasMessage
    /\ \A i \in 2..(Len(ls) - 2) :
         ls[i].line = "json" /\ ls[i].type = "content_block_delta" /\ ls[i].hasDelta
    /\ ls[Len(ls) - 1].line = "json" /\ ls[Len(ls) - 1].type = "message_delta"
    /\ ls[Len(ls) - 1].hasUsage
    /\ ls[Len(ls)].line = "json" /\ ls[Len(ls)].type = "message_stop"

\* C16: given start(id, model, promptTokens=p), k delta events with texts
\* t1..tk, delta-meta(completionTokens=c) and stop, adapter B yields exactly k
\* chunks (ti, done=false) in order and then one chunk (delta="", done=true,
\* usage={p, c, p+c}), all with the id and model of start; all of them are
\* handed over when the stream then ends.
C16_AnthropicCompleteStream ==
    (adapter = "anthropic" /\ scanErr = "nil" /\ IsCompleteAnthropicStream(lines)) =>
        LET k == Len(lines) - 3
            p == lines[1].inputTokens
            c == lines[Len(lines) - 1].outputTokens
        IN  /\ Len(produced) = k + 1
            /\ \A i \in 1..k :
                 produced[i] = StreamChunk(lines[1].id, lines[1].model, lines[i + 1].text,
                                           FALSE, NoUsage, "nil")
            /\ produced[k + 1] = StreamChunk(lines[1].id, lines[1].model, "", TRUE,
                                             MkUsage(p, c, p + c), "nil")
            /\ (exitPath = "eof" => sent = produced)

C16_Witness ==
    /\ adapter = "anthropic"
    /\ IsCompleteAnthropicStream(lines)
    /\ Len(lines) = 5
    /\ lines[2].text # lines[3].text
    /\ exitPath = "eof"
    /\ Len(sent) = 3
    /\ sent[3].Usage = MkUsage(3, 2, 5)
    /\ sent[1].ID = "r1"

\* C17: in adapter B a start event, a delta-meta event and an event of an
\* unrecognized type build no chunk and no error, the goroutine goes on to
\* the next line, and the accumulated id, model and token counts change only
\* on start (id, model, input tokens) and delta-meta (output tokens).
C17_AnthropicSilentEvents ==
    /\ [][(adapter = "anthropic" /\ lines' # lines) =>
            LET l == lines'[Len(lines')]
            IN  /\ (l.line = "json" /\ l.type \notin {"content_block_delta", "message_stop"} =>
                      /\ produced' = produced
                      /\ sent' = sent
                      /\ chunk' = chunk
                      /\ wpc' = "scan"
                      /\ exitPath' = exitPath)
                /\ (l.line = "json" /\ l.type = "message_start" /\ l.hasMessage =>
                      acc' = [respID |-> l.id, model |-> l.model,
                              inputTokens |-> l.inputTokens,
                              outputTokens |-> acc.outputTokens])
                /\ (l.line = "json" /\ l.type = "message_delta" /\ l.hasUsage =>
                      acc' = [respID |-> acc.respID, model |-> acc.model,
                              inputTokens |-> acc.inputTokens,
                              outputTokens |-> l.outputTokens])
                /\ (acc' # acc => l.line = "json" /\ l.type \in {"message_start", "message_delta"})]_vars
    /\ [][acc' # acc => lines' # lines]_vars

C17_Witness ==
    /\ adapter = "anthropic"
    /\ Len(lines) = 3
    /\ {lines[i].type : i \in 1..3} = {"message_start", "message_delta", "ping"}
    /\ wpc = "scan"
    /\ produced = <<>>
    /\ acc = [respID |-> "r1", model |-> "m", inputTokens |-> 3, outputTokens |-> 2]

\* C18: every chunk either adapter builds has usage only if done=true, error
\* only if done=true, and no usage if error is set.
C18_ChunkFieldInvariants ==
    \A i \in DOMAIN produced :
        /\ (produced[i].Usage.present => produced[i].Done)
        /\ (produced[i].Error # "nil" => produced[i].Done)
        /\ (produced[i].Error # "nil" => ~produced[i].Usage.present)

C18_Witness ==
    /\ Len(sent) = 3
    /\ ~sent[1].Done /\ sent[1].Delta # ""
    /\ sent[2].Done /\ sent[2].Usage.present
    /\ sent[3].Error # "nil"

\* The chunk sent[i] has gone through a whole iteration of Write's loop with
\* no failed write.
Processed(i) ==
    \/ i < Len(sent)
    \/ cpc \in {"range", "writeDone", "flushDone"}
    \/ ret \in {"nil", "errDoneMarker"}

IsPlainChunk(c) == ~c.Done /\ c.Error = "nil"

\* The chunks before sent[i] are neither final nor errors, so that each of
\* them stands for one frame.
PlainBefore(i) == \A j \in 1..(i - 1) : IsPlainChunk(sent[j])

\* C19: for every chunk with done=false and no error Write writes exactly one
\* frame, with the chunk's id and model, the object "chat.completion.chunk",
\* one choice of index 0 whose delta content is the chunk's delta, a null
\* finish_reason and no usage.
C19_PlainChunkOneFrame ==
    /\ \A i \in DOMAIN sent :
         (PlainBefore(i) /\ IsPlainChunk(sent[i]) /\ Processed(i)) =>
            /\ Len(frames) >= i
            /\ frames[i] = [kind |-> "chunk", prefix |-> "data: ", suffix |-> "\n\n",
                            id |-> sent[i].ID, object |-> "chat.completion.chunk",
                            model |-> sent[i].Model, index |-> 0,
                            content |-> sent[i].Delta, finish_reason |-> "null",
                            usage |-> NoUsage]
    /\ (Len(sent) > 0 /\ PlainBefore(Len(sent) + 1) =>
          Len(frames) = IF cpc \in {"handle", "writeEvent"} \/ ret = "errWrite"
                        THEN Len(sent) - 1
                        ELSE IF ret \in {"nil"} \/ cpc = "flushDone"
                        THEN Len(sent) + 1
                        ELSE Len(sent))

C19_Witness ==
    /\ Len(sent) = 2
    /\ IsPlainChunk(sent[1]) /\ IsPlainChunk(sent[2])
    /\ sent[1].ID = "r1"
    /\ sent[1].Delta # sent[2].Delta
    /\ cpc = "range"
    /\ Len(frames) = 2
    /\ frames[2].content = sent[2].Delta

\* C20: for a terminal chunk (done=true, no error) Write writes two frames
\* when the chunk's delta is not empty, a content frame with null
\* finish_reason and no usage and then a frame with empty content, the finish
\* marker and the chunk's usage if any, and exactly that one finish frame when
\* the delta is empty.
C20_TerminalChunkFrames ==
    \A i \in DOMAIN sent :
        (PlainBefore(i) /\ sent[i].Done /\ sent[i].Error = "nil" /\ Processed(i)) =>
            LET n == IF sent[i].Delta # "" THEN 2 ELSE 1
                finish == [kind |-> "chunk", prefix |-> "data: ", suffix |-> "\n\n",
                           id |-> sent[i].ID, object |-> "chat.completion.chunk",
                           model |-> sent[i].Model, index |-> 0,
                           content |-> "", finish_reason |-> "stop",
                           usage |-> sent[i].Usage]
                content == [kind |-> "chunk", prefix |-> "data: ", suffix |-> "\n\n",
                            id |-> sent[i].ID, object |-> "chat.completion.chunk",
                            model |-> sent[i].Model, index |-> 0,
                            content |-> sent[i].Delta, finish_reason |-> "null",
                            usage |-> NoUsage]
            IN  /\ Len(frames) >= i - 1 + n
                /\ frames[i - 1 + n] = finish
                /\ (n = 2 => frames[i] = content)
                /\ (i = Len(sent) /\ cpc = "range" => Len(frames) = i - 1 + n)

C20_Witness ==
    /\ Len(sent) = 2
    /\ IsPlainChunk(sent[1])
    /\ sent[2].Done /\ sent[2].Error = "nil"
    /\ sent[2].Delta # ""
    /\ sent[2].Usage.present
    /\ cpc = "range"
    /\ Len(frames) = 3
    /\ frames[2].content = sent[2].Delta
    /\ frames[3].finish_reason = "stop"

\* C21: every frame Write writes has the form "data: <payload>\n\n" with a
\* JSON chunk object or the literal [DONE] as payload, and for n non-terminal
\* chunks followed by one terminal chunk with an empty delta the output of a
\* Write that returned nil is exactly n+2 frames: n content frames, one finish
\* frame and [DONE].
C21_FrameFormatAndCount ==
    /\ (call = "chan" =>
          \A i \in DOMAIN frames :
              /\ frames[i].prefix = "data: "
              /\ frames[i].suffix = "\n\n"
              /\ frames[i].kind \in {"chunk", "[DONE]"}
              /\ (frames[i].kind = "chunk" => frames[i].object = "chat.completion.chunk"))
    /\ (/\ ret = "nil"
        /\ sent # <<>>
        /\ PlainBefore(Len(sent))
        /\ sent[Len(sent)].Done
        /\ sent[Len(sent)].Error = "nil"
        /\ sent[Len(sent)].Delta = "") =>
            LET n == Len(sent) - 1
            IN  /\ Len(frames) = n + 2
                /\ \A i \in 1..n :
                     /\ frames[i].kind = "chunk"
                     /\ frames[i].content = sent[i].Delta
                     /\ frames[i].finish_reason = "null"
                /\ frames[n + 1].kind = "chunk"
                /\ frames[n + 1].finish_reason = "stop"
                /\ frames[n + 1].content = ""
                /\ frames[n + 2].kind = "[DONE]"

C21_Witness ==
    /\ ret = "nil"
    /\ Len(sent) = 3
    /\ PlainBefore(3)
    /\ sent[3].Done /\ sent[3].Error = "nil" /\ sent[3].Delta = ""
    /\ Len(frames) = 4
    /\ frames[4].kind = "[DONE]"

\* The headers that frame the response as an event stream.
SSEHeaders ==
    {<<"Content-Type", "text/event-stream">>, <<"Cache-Control", "no-cache">>,
     <<"Connection", "keep-alive">>}

\* C22: on the streaming path the headers Content-Type text/event-stream,
\* Cache-Control no-cache and Connection keep-alive are set before the first
\* byte of the body is written, and no header is set or changed once a byte
\* has been written, on every path, the error and write-failure returns
\* included.
C22_HeadersBeforeFirstByte ==
    /\ []((call = "chan" /\ (frames # <<>> \/ cpc \notin {"write", "returned"})) =>
            /\ SSEHeaders \subseteq headers
            /\ \A h \in headers : \A g \in headers : h[1] = g[1] => h = g)
    /\ [][frames # <<>> => headers' = headers]_vars
    /\ [][(call = "chan" /\ frames' # frames) => (SSEHeaders \subseteq headers /\ headers' = headers)]_vars
    /\ [][ret # "none" => headers' = headers]_vars

C22_Witness ==
    /\ ret = "errWrite"
    /\ Len(frames) >= 1
    /\ SSEHeaders \subseteq headers
    /\ <<"X-LLMRouter-Provider", adapter>> \in headers

\* C23: Write flushes right after each frame it writes and before it receives
\* the next chunk: never are two written frames unflushed, a frame is unflushed
\* only while Write stands before the Flush that follows its write, and at
\* every receive and at the return of nil everything written is flushed.
C23_FlushAfterEachFrame ==
    /\ [](call = "chan" =>
            /\ flushed <= Len(frames)
            /\ Len(frames) - flushed <= 1
            /\ (flushed < Len(frames) => cpc \in {"flushContent", "flushEvent", "flushDone"})
            /\ (cpc \in {"flushContent", "flushEvent", "flushDone"} => flushed = Len(frames) - 1)
            /\ (ret = "nil" => flushed = Len(frames)))
    /\ [][sent' # sent => (flushed = Len(frames) /\ frames' = frames)]_vars
    /\ [][(call = "chan" /\ frames' # frames) =>
            (flushed = Len(frames) /\ Len(frames') = Len(frames) + 1)]_vars

C23_Witness ==
    /\ cpc = "flushEvent"
    /\ cur.Done /\ cur.Delta # ""
    /\ Len(sent) = 2
    /\ Len(frames) = 3
    /\ flushed = 2

\* Request i of the two in flight.
Req(i) == IF me = i THEN Request ELSE peer

\* C24: two streaming requests in flight together are independent.  Each has
\* its own goroutine, channel and response body; every chunk a request's Write
\* received was built by that request's goroutine from the lines of that
\* request's response; and no step of one request, its cancellation and its
\* failures included, changes anything of the other: it neither closes the
\* other's channel or body nor sends or writes anything there.
C24_RequestsAreIndependent ==
    /\ [](\A i \in {1, 2} :
            LET r == Req(i)
            IN  /\ r.goroutines <= 1
                /\ (r.call = "chan" => r.goroutines = 1)
                /\ Len(r.sent) <= Len(r.produced)
                /\ \A k \in DOMAIN r.sent : r.sent[k] = r.produced[k]
                /\ \A k \in DOMAIN r.produced :
                     r.produced[k].Error = "nil" =>
                        /\ r.produced[k].Delta = Tag(i)
                        /\ Len(r.lines) >= k
                        /\ r.lines[k].text = r.produced[k].Delta
                /\ \A k \in DOMAIN r.frames :
                     (r.frames[k].kind = "chunk" /\ r.frames[k].content # "") =>
                        /\ r.frames[k].content = Tag(i)
                        /\ \E j \in DOMAIN r.sent : r.sent[j].Delta = r.frames[k].content
                /\ (r.chClosed => r.wpc = "exited" /\ r.exitPath # "none")
                /\ (r.exitPath \in {"cancel", "readCancel"} => r.ctxDone)
                /\ (r.scanErr = "ctx" => r.ctxDone)
                /\ (r.bodyCloses # <<>> => r.status # 0 /\ Len(r.bodyCloses) = 1))
    /\ [][Req(1)' = Req(1) \/ Req(2)' = Req(2)]_vars

C24_Witness ==
    /\ Req(1).call = "chan" /\ Req(2).call = "chan"
    /\ Req(1).exitPath = "cancel"
    /\ Req(1).chClosed
    /\ Req(1).cpc = "returned"
    /\ ~Req(2).ctxDone
    /\ ~Req(2).chClosed
    /\ Req(2).bodyCloses = <<>>
    /\ Len(Req(2).sent) = 1
    /\ Req(2).sent[1].Delta = "b"
    /\ Len(Req(2).frames) = 1
    /\ Req(2).frames[1].content = "b"
    /\ Req(2).wpc = "scan"

\* ChatCompletion got a response with status 200 and a body that decodes.
CompleteDecoded == status = http_StatusOK /\ vendorResp.present /\ vendorResp.line = "json"

\* The blocks of type "text" in Anthropic's answer.
TextBlocks == {i \in DOMAIN vendorResp.content : vendorResp.content[i].Type = "text"}

\* C25: Anthropic's ChatCompletion uses the text of the first content block
\* of type "text", and when the successful response has no such block it
\* fails with an error and returns no ChatResponse.
C25_AnthropicFirstTextOrError ==
    (adapter = "anthropic" /\ CompleteDecoded) =>
        IF TextBlocks = {}
        THEN call = "errEmpty" /\ resp = None
        ELSE /\ call = "ok"
             /\ resp.present
             /\ \E i \in TextBlocks :
                  /\ \A j \in TextBlocks : i <= j
                  /\ resp.Content = vendorResp.content[i].Text

\* C26: Gemini's ChatCompletion returns a ChatResponse only if the response
\* has a candidate with at least one part, and its Content is then the first
\* part of the first candidate; otherwise it fails with an error and returns
\* no ChatResponse.
C26_GeminiCandidateOrError ==
    (adapter = "google" /\ CompleteDecoded) =>
        /\ call \in {"ok", "errEmpty"}
        /\ (call = "ok" <=> resp.present)
        /\ (resp.present =>
              /\ \E i \in DOMAIN vendorResp.candidates : Len(vendorResp.candidates[i]) >= 1
              /\ resp.Content = vendorResp.candidates[1][1])
        /\ ((\A i \in DOMAIN vendorResp.candidates : Len(vendorResp.candidates[i]) = 0) =>
              /\ call = "errEmpty"
              /\ resp = None
              /\ cpc \in {"respond502", "returned"}
              /\ \A k \in DOMAIN frames : frames[k].kind = "error502")

C26_Witness ==
    /\ adapter = "google"
    /\ call = "ok"
    /\ Len(vendorResp.candidates[1]) = 2
    /\ resp.Content = "x"
    /\ cpc = "returned"
    /\ frames = <<[kind |-> "json", resp |-> resp]>>

\* C27: for both adapters ChatCompletion returns an error and no ChatResponse
\* whenever the vendor answers with a status other than 200 or with a body
\* that does not decode, and on every return after a response was obtained the
\* body of the response has been closed.
C27_CompleteFailsAndClosesBody ==
    call # "pending" /\ ~req.Stream =>
        /\ (vendorResp.present <=> status # 0)
        /\ ((vendorResp.present /\ (status # http_StatusOK \/ vendorResp.line = "bad")) =>
              /\ call = (IF status # http_StatusOK THEN "errStatus" ELSE "errDecode")
              /\ resp = None
              /\ cpc \in {"respond502", "returned"}
              /\ \A k \in DOMAIN frames : frames[k].kind = "error502")
        /\ (vendorResp.present => bodyCloses = <<"ChatCompletion">>)
        /\ (~vendorResp.present => bodyCloses = <<>> /\ resp = None)

C27_Witness ==
    /\ call = "errDecode"
    /\ status = http_StatusOK
    /\ vendorResp.line = "bad"
    /\ bodyCloses = <<"ChatCompletion">>
    /\ cpc = "returned"

IsSystem(m) == m.Role = "system"

IsNotSystem(m) == m.Role # "system"

\* The contents of the system messages of the request, in their order.
SystemContents ==
    LET sys == SelectSeq(req.Messages, IsSystem)
    IN  [i \in 1..Len(sys) |-> sys[i].Content]

\* The texts ss with a newline between each two of them.
RECURSIVE NewlineJoined(_)
NewlineJoined(ss) ==
    IF ss = <<>> THEN <<>>
    ELSE IF Len(ss) = 1 THEN ss[1]
    ELSE ss[1] \o <<"\n">> \o NewlineJoined(Tail(ss))

\* C28: for a request without system messages the Gemini request has no
\* systemInstruction and the Anthropic request has no system string.
C28_NoSystemNoInstruction ==
    (vendorReq.present /\ SystemContents = <<>>) =>
        IF adapter = "google"
        THEN vendorReq.SystemInstruction = None
        ELSE vendorReq.System = <<>>

C28_Witness ==
    /\ vendorReq.present
    /\ adapter = "google"
    /\ Len(req.Messages) = 3
    /\ SystemContents = <<>>
    /\ Len(vendorReq.Contents) = 3

\* C29: for a request with k >= 1 system messages, wherever they stand, the
\* system string of the Anthropic request is their contents joined by newline
\* in their order, and none of them is in the translated message list, which
\* holds the other messages in their order.
C29_AnthropicSystemJoined ==
    (vendorReq.present /\ adapter = "anthropic" /\ SystemContents # <<>>) =>
        /\ vendorReq.System = NewlineJoined(SystemContents)
        /\ \A j \in DOMAIN vendorReq.Messages : vendorReq.Messages[j].Role # "system"
        /\ vendorReq.Messages = SelectSeq(req.Messages, IsNotSystem)

C29_Witness ==
    /\ vendorReq.present
    /\ adapter = "anthropic"
    /\ Len(req.Messages) = 3
    /\ req.Messages[1].Role = "system"
    /\ req.Messages[2].Role = "user"
    /\ req.Messages[3].Role = "system"
    /\ vendorReq.System = <<"p", "\n", "q">>
    /\ Len(vendorReq.Messages) = 1

\* C30: toGeminiRequest puts the contents of all system messages, in their
\* order, into the one systemInstruction, and the contents list holds exactly
\* the other messages in their order, with the role "assistant" renamed to
\* "model" and every other role as it was.
C30_GeminiTranslation ==
    (vendorReq.present /\ adapter = "google") =>
        LET rest == SelectSeq(req.Messages, IsNotSystem)
        IN  /\ (SystemContents # <<>> =>
                  /\ vendorReq.SystemInstruction.present
                  /\ vendorReq.SystemInstruction.Parts = SystemContents)
            /\ Len(vendorReq.Contents) = Len(rest)
            /\ \A i \in DOMAIN rest :
                 /\ vendorReq.Contents[i].Parts = <<rest[i].Content>>
                 /\ vendorReq.Contents[i].Role =
                        (IF rest[i].Role = "assistant" THEN "model" ELSE rest[i].Role)
                 /\ vendorReq.Contents[i].Role # "system"

C30_Witness ==
    /\ vendorReq.present
    /\ adapter = "google"
    /\ Len(req.Messages) = 3
    /\ req.Messages[1].Role = "assistant"
    /\ req.Messages[2].Role = "system"
    /\ req.Messages[3].Role = "tool"
    /\ vendorReq.SystemInstruction.Parts = <<req.Messages[2].Content>>
    /\ vendorReq.Contents[1].Role = "model"
    /\ vendorReq.Contents[2].Role = "tool"

\* C31: the Anthropic request always carries max_tokens, the caller's value
\* when that is positive and 1024 when the caller gave none; the Gemini
\* request has a generationConfig, with the caller's value, only when the
\* caller gave max tokens, and none otherwise.
C31_MaxTokens ==
    vendorReq.present =>
        IF adapter = "anthropic"
        THEN /\ vendorReq.MaxTokens > 0
             /\ (req.MaxTokens > 0 => vendorReq.MaxTokens = req.MaxTokens)
             /\ (req.MaxTokens = 0 => vendorReq.MaxTokens = 1024)
        ELSE /\ (vendorReq.GenerationConfig.present => req.MaxTokens > 0)
             /\ (req.MaxTokens > 0 =>
                   /\ vendorReq.GenerationConfig.present
                   /\ vendorReq.GenerationConfig.MaxOutputTokens = req.MaxTokens)
             /\ (req.MaxTokens = 0 => vendorReq.GenerationConfig = None)

C31_Witness ==
    /\ vendorReq.present
    /\ adapter = "anthropic"
    /\ req.MaxTokens = 0
    /\ vendorReq.MaxTokens = 1024

\* The Gemini lines a chunk is built from, in order.
GeminiChunkLines ==
    SelectSeq(lines, LAMBDA l : l.line = "bad" \/ (l.line = "json" /\ l.ncand > 0))

FinishFrames == {k \in DOMAIN frames : frames[k].kind = "chunk" /\ frames[k].finish_reason # "null"}

\* The chunks handed to Write that are final and carry no error.
FinalChunks == {i \in DOMAIN sent : sent[i].Done /\ sent[i].Error = "nil"}

RECURSIVE TwoChunkForm(_, _)
TwoChunkForm(cs, i) ==
    IF i > Len(cs) THEN <<>>
    ELSE (IF cs[i].Done /\ cs[i].Delta # ""
          THEN <<[cs[i] EXCEPT !.Done = FALSE, !.Usage = NoUsage], [cs[i] EXCEPT !.Delta = ""]>>
          ELSE <<cs[i]>>) \o TwoChunkForm(cs, i + 1)

\* The one frame of a chunk that is not a final chunk with content.
OneFrame(c) ==
    [kind |-> "chunk", prefix |-> "data: ", suffix |-> "\n\n", id |-> c.ID,
     object |-> "chat.completion.chunk", model |-> c.Model, index |-> 0,
     content |-> IF c.Done THEN "" ELSE c.Delta,
     finish_reason |-> IF c.Done THEN "stop" ELSE "null",
     usage |-> IF c.Done THEN c.Usage ELSE NoUsage]

\* What Write has written when it returns nil on a stream given in its
\* two-chunk form.
Encoded(cs) ==
    [k \in 1..Len(cs) |-> OneFrame(cs[k])]
        \o <<[kind |-> "[DONE]", prefix |-> "data: ", suffix |-> "\n\n", id |-> "",
              object |-> "", model |-> "", index |-> 0,
              content |-> "", finish_reason |-> "null", usage |-> NoUsage]>>

\* C35: what Write writes for a stream that ends in one chunk (X, done, u)
\* with X not empty is, frame for frame, what it writes for the same stream
\* ending in the two chunks (X, not done) and ("", done, u) of the same id
\* and model: the output of any stream Write ran through is the output of
\* its two-chunk form, one frame per chunk and the sentinel.
C35_OneChunkAsTwoChunks ==
    ret = "nil" => frames = Encoded(TwoChunkForm(sent, 1))

\* Write ran through a stream ending in a final chunk with content.
C35_Witness ==
    /\ ret = "nil"
    /\ Len(sent) = 2
    /\ IsPlainChunk(sent[1])
    /\ sent[2].Done /\ sent[2].Delta # "" /\ sent[2].Usage.present
    /\ Len(frames) = 4

\* Write ran through the two-chunk form of such a stream.
C35_WitnessTwoChunks ==
    /\ ret = "nil"
    /\ Len(sent) = 3
    /\ IsPlainChunk(sent[1]) /\ IsPlainChunk(sent[2])
    /\ sent[3].Done /\ sent[3].Delta = "" /\ sent[3].Usage.present
    /\ Len(frames) = 4

\* The body ended with no finishReason (Gemini) or message_stop (Anthropic)
\* in any of its events.
EOFWithoutFinish ==
    /\ exitPath = "eof"
    /\ \A j \in DOMAIN lines :
          lines[j].line = "json" =>
              IF adapter = "google" THEN lines[j].finishReason = ""
              ELSE lines[j].type # "message_stop"

\* C36: when the upstream body ends cleanly with no finish marker (Gemini) or
\* stop event (Anthropic), the goroutine has built no final chunk and no
\* error chunk and goes on to close the channel; stream.Write does not
\* return a chunk's error and comes to its end; when it returns nil it has
\* written one frame per chunk and the [DONE] sentinel, and no frame with a
\* finish_reason.
C36_EOFWithoutFinish ==
    /\ [](EOFWithoutFinish =>
            \A i \in DOMAIN produced : ~produced[i].Done /\ produced[i].Error = "nil")
    /\ EOFWithoutFinish ~> chClosed
    /\ [](EOFWithoutFinish => ret # "errChunk")
    /\ (EOFWithoutFinish /\ cpc # "handler") ~> (cpc = "returned")
    /\ [](EOFWithoutFinish /\ ret = "nil" =>
            /\ Len(frames) = Len(sent) + 1
            /\ frames[Len(frames)].kind = "[DONE]"
            /\ \A k \in DOMAIN frames : frames[k].finish_reason = "null")

C36_Witness ==
    /\ EOFWithoutFinish
    /\ ret = "nil"
    /\ Len(sent) = 2
    /\ Len(frames) = 3
    /\ frames[3].kind = "[DONE]"

\* C37: the output of a request has at most one frame whose finish_reason is
\* not null, and that frame is the last JSON frame: only the [DONE] sentinel
\* comes after it.
C37_OneFinishFrameLast ==
    \A k \in DOMAIN frames :
        (frames[k].kind = "chunk" /\ frames[k].finish_reason # "null") =>
            \A j \in DOMAIN frames : j > k => frames[j].kind = "[DONE]"

\* C38: on every path on which the goroutine leaves its function,
\* httpResp.Body.Close() has run before close(ch) runs; so whenever
\* stream.Write finds the channel closed, the upstream connection has been
\* closed already, once and by the goroutine.
C38_BodyClosedBeforeChannel ==
    /\ [][(chClosed' /\ ~chClosed) => (wpc = "defer2" /\ bodyCloses = <<"goroutine">>)]_vars
    /\ [](chClosed => bodyCloses = <<"goroutine">>)
    /\ [](wpc = "exited" => chClosed)
    /\ []((cpc \in {"writeDone", "flushDone"} \/ ret \in {"nil", "errDoneMarker"}) =>
            chClosed /\ bodyCloses = <<"goroutine">>)

C38_Witness ==
    /\ cpc = "writeDone"
    /\ chClosed
    /\ bodyCloses = <<"goroutine">>
    /\ exitPath = "cancel"

\* The concatenation of the strings of a sequence, from its i-th on.
RECURSIVE Concat(_, _)
Concat(ss, i) == IF i > Len(ss) THEN "" ELSE ss[i] \o Concat(ss, i + 1)

\* The text fragment an upstream event carries, "" when it carries none:
\* the text of the first part of the first candidate of a Gemini event, the
\* delta text of an Anthropic content_block_delta.
FragmentOf(l) ==
    IF l.line # "json" THEN ""
    ELSE IF adapter = "google" THEN (IF l.ncand > 0 /\ l.nparts > 0 THEN l.text ELSE "")
    ELSE (IF l.type = "content_block_delta" /\ l.hasDelta THEN l.text ELSE "")

\* The request was not cancelled, the upstream body was read to its end with
\* every event decoded, and Write returned nil.
StreamedToTheEnd ==
    /\ ~ctxDone
    /\ exitPath = "eof"
    /\ ret = "nil"

\* C39: for a stream that was neither cancelled nor failed, the delta
\* contents of the frames written, concatenated in the order written, are
\* the text fragments of the upstream events concatenated in upstream order:
\* nothing is lost, repeated or reordered on the way.
C39_TextPreserved ==
    StreamedToTheEnd =>
        Concat([k \in DOMAIN frames |-> frames[k].content], 1)
            = Concat([j \in DOMAIN lines |-> FragmentOf(lines[j])], 1)

C39_Witness ==
    /\ StreamedToTheEnd
    /\ Len(lines) = 3
    /\ Concat([k \in DOMAIN frames |-> frames[k].content], 1) = "ba"
    /\ \E j \in DOMAIN lines : lines[j].line = "json" /\ FragmentOf(lines[j]) = ""

ToUpperWord(w) ==
    CASE w = "server" -> "SERVER" [] w = "port" -> "PORT" [] w = "read" -> "READ"
      [] w = "write" -> "WRITE" [] w = "timeout" -> "TIMEOUT" [] w = "providers" -> "PROVIDERS"
      [] w = "google" -> "GOOGLE" [] w = "api" -> "API" [] w = "key" -> "KEY"
      [] w = "base" -> "BASE" [] w = "url" -> "URL"
      [] OTHER -> w

\* The name of the environment variable for a config key: the prefix, then
\* the key in upper case with "_" between its segments, as
\* LLMROUTER_SERVER_PORT for server.port.
RECURSIVE JoinSegments(_, _)
JoinSegments(path, i) ==
    IF i > Len(path) THEN <<>>
    ELSE IF i = Len(path) THEN path[i]
    ELSE path[i] \o <<"_">> \o JoinSegments(path, i + 1)

EnvNameOf(key) ==
    LET flat == JoinSegments(key, 1)
    IN  <<"LLMROUTER", "_">> \o [i \in DOMAIN flat |-> ToUpperWord(flat[i])]

\* C34: a variable of the environment with the prefix LLMROUTER_ stands for
\* a config key, and in the Config that Load returns the value of that key
\* is the variable's, whatever the YAML file has for the key:
\* LLMROUTER_SERVER_PORT gives server.port, LLMROUTER_SERVER_READ_TIMEOUT
\* server.read_timeout, LLMROUTER_PROVIDERS_GOOGLE_API_KEY
\* providers.google.api_key.
C34_EnvOverridesYaml ==
    cfg.err = "nil" =>
        \A e \in environ :
            /\ e.name = EnvNameOf(Key_port) => cfg.Server.Port = strconv_Atoi(e.value)
            /\ e.name = EnvNameOf(Key_read_timeout) =>
                   cfg.Server.ReadTimeout = time_ParseDuration(e.value)
            /\ e.name = EnvNameOf(Key_write_timeout) =>
                   cfg.Server.WriteTimeout = time_ParseDuration(e.value)
            /\ e.name = EnvNameOf(Key_api_key(<<"google">>)) =>
                   /\ <<"google">> \in DOMAIN cfg.Providers
                   /\ cfg.Providers[<<"google">>].APIKey = e.value

====
